---- MODULE Spec2Model ----
(***************************************************************************)
(* Model of the document similarity search core of the TestChatBot         *)
(* repository: SimpleVectorStore (src/scraper.js) and VectorStore          *)
(* (src/vector_embeddings.js).                                             *)
(*                                                                         *)
(* Texts are sequences of one-character strings.  JavaScript Numbers are   *)
(* IEEE 754 binary64 values, modelled bit-exactly (round to nearest, ties  *)
(* to even) on top of a small natural-number arithmetic over limbs,        *)
(* because the ranking of documents depends on the rounding of the         *)
(* similarity scores.                                                      *)
(***************************************************************************)
EXTENDS Integers, Sequences, FiniteSets, TLC

(***************************************************************************)
(* Natural numbers of arbitrary size: little-endian sequences of limbs in  *)
(* 0..LimbBase-1, without leading (high) zero limbs; <<>> is 0.            *)
(***************************************************************************)
LimbBits == 14

LimbBase == 2^LimbBits

Limb(a, i) == IF i <= Len(a) THEN a[i] ELSE 0

RECURSIVE BNorm(_)
BNorm(a) ==
    IF a = <<>> THEN <<>>
    ELSE IF a[Len(a)] = 0 THEN BNorm(SubSeq(a, 1, Len(a) - 1))
    ELSE a

BFromInt(n) ==
    IF n = 0 THEN <<>>
    ELSE IF n < LimbBase THEN <<n>>
    ELSE IF n < LimbBase * LimbBase THEN <<n % LimbBase, n \div LimbBase>>
    ELSE <<n % LimbBase, (n \div LimbBase) % LimbBase, n \div (LimbBase * LimbBase)>>

RECURSIVE BAddC(_, _, _, _)
BAddC(a, b, i, c) ==
    IF i > Len(a) /\ i > Len(b)
    THEN (IF c = 0 THEN <<>> ELSE <<c>>)
    ELSE LET s == Limb(a, i) + Limb(b, i) + c
         IN  <<s % LimbBase>> \o BAddC(a, b, i + 1, s \div LimbBase)

BAdd(a, b) == BAddC(a, b, 1, 0)

\* a - b for a >= b
RECURSIVE BSubC(_, _, _, _)
BSubC(a, b, i, c) ==
    IF i > Len(a) THEN <<>>
    ELSE LET s == a[i] - Limb(b, i) - c
         IN  IF s < 0 THEN <<s + LimbBase>> \o BSubC(a, b, i + 1, 1)
             ELSE <<s>> \o BSubC(a, b, i + 1, 0)

BSub(a, b) == BNorm(BSubC(a, b, 1, 0))

\* -1, 0, 1 as a < b, a = b, a > b
RECURSIVE BCmpAt(_, _, _)
BCmpAt(a, b, i) ==
    IF i = 0 THEN 0
    ELSE IF a[i] < b[i] THEN -1
    ELSE IF a[i] > b[i] THEN 1
    ELSE BCmpAt(a, b, i - 1)

BCmp(a, b) ==
    IF Len(a) < Len(b) THEN -1
    ELSE IF Len(a) > Len(b) THEN 1
    ELSE BCmpAt(a, b, Len(a))

\* a * d for one limb-sized factor d
RECURSIVE BMulSmallC(_, _, _, _)
BMulSmallC(a, d, i, c) ==
    IF i > Len(a) THEN (IF c = 0 THEN <<>> ELSE <<c>>)
    ELSE LET s == a[i] * d + c
         IN  <<s % LimbBase>> \o BMulSmallC(a, d, i + 1, s \div LimbBase)

BMulSmall(a, d) == IF d = 0 THEN <<>> ELSE BMulSmallC(a, d, 1, 0)

Zeros(n) == [i \in 1..n |-> 0]

RECURSIVE BMulAt(_, _, _)
BMulAt(a, b, i) ==
    IF i > Len(b) THEN <<>>
    ELSE LET p == BMulSmall(a, b[i])
         IN  BAdd(IF p = <<>> THEN <<>> ELSE Zeros(i - 1) \o p, BMulAt(a, b, i + 1))

BMul(a, b) == IF a = <<>> \/ b = <<>> THEN <<>> ELSE BMulAt(a, b, 1)

\* floor(a / d) for one limb-sized divisor d, from the high limb down
RECURSIVE BDivSmallAt(_, _, _, _)
BDivSmallAt(a, d, i, r) ==
    IF i = 0 THEN <<>>
    ELSE LET cur == r * LimbBase + a[i]
         IN  BDivSmallAt(a, d, i - 1, cur % d) \o <<cur \div d>>

BDivSmall(a, d) == BNorm(BDivSmallAt(a, d, Len(a), 0))

\* a * 2^k and floor(a / 2^k)
BShl(a, k) ==
    IF a = <<>> THEN <<>>
    ELSE Zeros(k \div LimbBits) \o BMulSmall(a, 2^(k % LimbBits))

BShr(a, k) ==
    IF k \div LimbBits >= Len(a) THEN <<>>
    ELSE BDivSmall(SubSeq(a, (k \div LimbBits) + 1, Len(a)), 2^(k % LimbBits))

RECURSIVE SmallBitLen(_)
SmallBitLen(n) == IF n = 0 THEN 0 ELSE 1 + SmallBitLen(n \div 2)

BitLen(a) == IF a = <<>> THEN 0 ELSE LimbBits * (Len(a) - 1) + SmallBitLen(a[Len(a)])

BBit(a, i) == (Limb(a, (i \div LimbBits) + 1) \div 2^(i % LimbBits)) % 2

BOdd(a) == a # <<>> /\ a[1] % 2 = 1

\* the largest d < LimbBase with b * d <= r, found bit by bit (r < b * LimbBase)
RECURSIVE QuotientDigit(_, _, _, _)
QuotientDigit(r, b, bit, d) ==
    IF bit < 0 THEN d
    ELSE IF BCmp(BMulSmall(b, d + 2^bit), r) <= 0
         THEN QuotientDigit(r, b, bit - 1, d + 2^bit)
         ELSE QuotientDigit(r, b, bit - 1, d)

\* <<floor(a / b), a mod b>> for b > 0, by long division from limb i down
RECURSIVE BDivModAt(_, _, _, _)
BDivModAt(a, b, i, r) ==
    IF i = 0 THEN <<<<>>, r>>
    ELSE LET cur  == BNorm(<<a[i]>> \o r)
             d    == QuotientDigit(cur, b, LimbBits - 1, 0)
             rest == BDivModAt(a, b, i - 1, BSub(cur, BMulSmall(b, d)))
         IN  <<rest[1] \o <<d>>, rest[2]>>

BDivMod(a, b) ==
    LET qr == BDivModAt(a, b, Len(a), <<>>) IN <<BNorm(qr[1]), qr[2]>>

\* floor(sqrt(n)), bit by bit from bit i down
RECURSIVE BSqrtAt(_, _, _)
BSqrtAt(n, i, r) ==
    IF i < 0 THEN r
    ELSE LET t == BAdd(r, BShl(<<1>>, i))
         IN  IF BCmp(BMul(t, t), n) <= 0
             THEN BSqrtAt(n, i - 1, t)
             ELSE BSqrtAt(n, i - 1, r)

BSqrt(n) == BSqrtAt(n, (BitLen(n) + 1) \div 2, <<>>)

(***************************************************************************)
(* JavaScript Numbers.  A finite non-zero value is sign * m * 2^e with m   *)
(* a natural of exactly Precision bits; NaN, 0 and the two infinities are  *)
(* separate kinds.  Every operation is the IEEE 754 correctly rounded one, *)
(* with overflow to Infinity.  The magnitudes of the model stay far above  *)
(* the subnormal range, and no operation of the modelled code tells -0     *)
(* from +0, so there is one zero and no subnormal value.                   *)
(***************************************************************************)
Precision == 53

\* the exponent e of the largest finite values m * 2^e
MaxExponent == 971

NaN == [k |-> "nan"]

Zero == [k |-> "zero"]

Infinity(sign) == [k |-> "inf", s |-> sign]

IsNaN(x) == x.k = "nan"

IsZero(x) == x.k = "zero"

IsInfinite(x) == x.k = "inf"

\* m * 2^e with m of Precision bits, or the infinity it overflows to
Finite(sign, m, e) ==
    IF e > MaxExponent THEN Infinity(sign)
    ELSE [k |-> "num", s |-> sign, m |-> m, e |-> e]

\* the Number nearest to sign * n * 2^e (n a natural > 0); sticky says that
\* the exact value lies strictly above n * 2^e (and below (n+1) * 2^e)
Round(sign, n, e, sticky) ==
    LET L == BitLen(n) IN
    IF L <= Precision
    THEN Finite(sign, BShl(n, Precision - L), e - (Precision - L))
    ELSE LET sh   == L - Precision
             q    == BShr(n, sh)
             rem  == BSub(n, BShl(q, sh))
             c    == BCmp(rem, BShl(<<1>>, sh - 1))
             up   == c = 1 \/ (c = 0 /\ (sticky \/ BOdd(q)))
             q2   == IF up THEN BAdd(q, <<1>>) ELSE q
         IN  IF BitLen(q2) > Precision
             THEN Finite(sign, BShr(q2, 1), e + sh + 1)
             ELSE Finite(sign, q2, e + sh)

FromInt(n) ==
    IF n = 0 THEN Zero
    ELSE IF n > 0 THEN Round(1, BFromInt(n), 0, FALSE)
    ELSE Round(-1, BFromInt(-n), 0, FALSE)

FNeg(x) == IF x.k \in {"num", "inf"} THEN [x EXCEPT !.s = -x.s] ELSE x

FMul(x, y) ==
    IF IsNaN(x) \/ IsNaN(y) THEN NaN
    ELSE IF IsInfinite(x) \/ IsInfinite(y)
         THEN (IF IsZero(x) \/ IsZero(y) THEN NaN ELSE Infinity(x.s * y.s))
    ELSE IF IsZero(x) \/ IsZero(y) THEN Zero
    ELSE Round(x.s * y.s, BMul(x.m, y.m), x.e + y.e, FALSE)

FAdd(x, y) ==
    IF IsNaN(x) \/ IsNaN(y) THEN NaN
    ELSE IF IsInfinite(x) THEN (IF IsInfinite(y) /\ y.s # x.s THEN NaN ELSE x)
    ELSE IF IsInfinite(y) THEN y
    ELSE IF IsZero(x) THEN y
    ELSE IF IsZero(y) THEN x
    ELSE LET emin == IF x.e < y.e THEN x.e ELSE y.e
             nx   == BShl(x.m, x.e - emin)
             ny   == BShl(y.m, y.e - emin)
             c    == BCmp(nx, ny)
         IN  IF x.s = y.s THEN Round(x.s, BAdd(nx, ny), emin, FALSE)
             ELSE IF c = 0 THEN Zero
             ELSE IF c > 0 THEN Round(x.s, BSub(nx, ny), emin, FALSE)
             ELSE Round(y.s, BSub(ny, nx), emin, FALSE)

FSub(x, y) == FAdd(x, FNeg(y))

\* x / y; 0/0 and Infinity/Infinity are NaN, x/0 is an infinity
FDiv(x, y) ==
    IF IsNaN(x) \/ IsNaN(y) THEN NaN
    ELSE IF IsInfinite(x)
         THEN (IF IsInfinite(y) THEN NaN
               ELSE Infinity(IF IsZero(y) THEN x.s ELSE x.s * y.s))
    ELSE IF IsInfinite(y) THEN Zero
    ELSE IF IsZero(y) THEN (IF IsZero(x) THEN NaN ELSE Infinity(x.s))
    ELSE IF IsZero(x) THEN Zero
    ELSE LET qr == BDivMod(BShl(x.m, Precision + 2), y.m)
         IN  Round(x.s * y.s, qr[1], x.e - y.e - (Precision + 2), qr[2] # <<>>)

\* Math.sqrt
FSqrt(x) ==
    IF IsNaN(x) THEN NaN
    ELSE IF IsZero(x) THEN Zero
    ELSE IF x.s < 0 THEN NaN
    ELSE IF IsInfinite(x) THEN x
    ELSE LET k == IF (x.e - (Precision + 3)) % 2 = 0 THEN Precision + 3 ELSE Precision + 4
             n == BShl(x.m, k)
             r == BSqrt(n)
         IN  Round(1, r, (x.e - k) \div 2, BMul(r, r) # n)

\* -1, 0, 1 as |x| < |y|, |x| = |y|, |x| > |y|, for x and y neither NaN nor 0
FCmpMag(x, y) ==
    IF IsInfinite(x) \/ IsInfinite(y)
    THEN (IF IsInfinite(x) /\ IsInfinite(y) THEN 0 ELSE IF IsInfinite(x) THEN 1 ELSE -1)
    ELSE IF x.e + 0 < y.e THEN -1
    ELSE IF x.e > y.e THEN 1
    ELSE BCmp(x.m, y.m)

FSign(x) == IF IsZero(x) THEN 0 ELSE x.s

FCmp(x, y) ==
    IF FSign(x) # FSign(y) THEN (IF FSign(x) < FSign(y) THEN -1 ELSE 1)
    ELSE IF FSign(x) = 0 THEN 0
    ELSE FSign(x) * FCmpMag(x, y)

\* the relational operators: every comparison with NaN is false
FGt(x, y) == ~IsNaN(x) /\ ~IsNaN(y) /\ FCmp(x, y) > 0

FGe(x, y) == ~IsNaN(x) /\ ~IsNaN(y) /\ FCmp(x, y) >= 0

FLe(x, y) == ~IsNaN(x) /\ ~IsNaN(y) /\ FCmp(x, y) <= 0

\* x === y on Numbers
FEq(x, y) == ~IsNaN(x) /\ ~IsNaN(y) /\ FCmp(x, y) = 0

(***************************************************************************)
(* Texts: a string is the sequence of its characters.                      *)
(***************************************************************************)
UpperCase ==
    <<"A", "B", "C", "D", "E", "F", "G", "H", "I", "J", "K", "L", "M",
      "N", "O", "P", "Q", "R", "S", "T", "U", "V", "W", "X", "Y", "Z">>

LowerCase ==
    <<"a", "b", "c", "d", "e", "f", "g", "h", "i", "j", "k", "l", "m",
      "n", "o", "p", "q", "r", "s", "t", "u", "v", "w", "x", "y", "z">>

Digits == <<"0", "1", "2", "3", "4", "5", "6", "7", "8", "9">>

Range(s) == {s[i] : i \in DOMAIN s}

IndexOf(s, x) == IF \E i \in DOMAIN s : s[i] = x
                 THEN CHOOSE i \in DOMAIN s : s[i] = x /\ \A j \in 1..(i - 1) : s[j] # x
                 ELSE 0

\* String.prototype.toLowerCase
toLowerCase(text) ==
    IF text = <<>> THEN <<>>
    ELSE [i \in 1..Len(text) |->
            IF IndexOf(UpperCase, text[i]) # 0
            THEN LowerCase[IndexOf(UpperCase, text[i])]
            ELSE text[i]]

\* the character class \w
IsWordChar(c) ==
    c \in Range(UpperCase) \cup Range(LowerCase) \cup Range(Digits) \cup {"_"}

\* text.match(/\b\w+\b/g) || [] : the maximal runs of word characters
RECURSIVE MatchWordsFrom(_, _, _)
MatchWordsFrom(text, i, cur) ==
    IF i > Len(text) THEN (IF cur = <<>> THEN <<>> ELSE <<cur>>)
    ELSE IF IsWordChar(text[i]) THEN MatchWordsFrom(text, i + 1, Append(cur, text[i]))
    ELSE (IF cur = <<>> THEN <<>> ELSE <<cur>>) \o MatchWordsFrom(text, i + 1, <<>>)

MatchWords(text) == MatchWordsFrom(text, 1, <<>>)

(***************************************************************************)
(* The wordCount object of createEmbedding: a plain object ({}), so a key  *)
(* it does not own is looked up on Object.prototype.  Own properties are   *)
(* kept in creation order as <<key, value>> records; a value is a number   *)
(* or a string.                                                            *)
(***************************************************************************)
KeyConstructor ==
    <<"c", "o", "n", "s", "t", "r", "u", "c", "t", "o", "r">>

KeyProto ==
    <<"_", "_", "p", "r", "o", "t", "o", "_", "_">>

\* the property names of Object.prototype
ObjectPrototypeKeys ==
    { KeyConstructor, KeyProto,
      <<"h", "a", "s", "O", "w", "n", "P", "r", "o", "p", "e", "r", "t", "y">>,
      <<"i", "s", "P", "r", "o", "t", "o", "t", "y", "p", "e", "O", "f">>,
      <<"p", "r", "o", "p", "e", "r", "t", "y", "I", "s", "E", "n", "u", "m", "e", "r", "a", "b", "l", "e">>,
      <<"t", "o", "L", "o", "c", "a", "l", "e", "S", "t", "r", "i", "n", "g">>,
      <<"t", "o", "S", "t", "r", "i", "n", "g">>,
      <<"v", "a", "l", "u", "e", "O", "f">> }

JSNumber(n) == [t |-> "number", n |-> n]

JSString == [t |-> "string", n |-> 0]

JSObject == [t |-> "object", n |-> 0]

JSUndefined == [t |-> "undefined", n |-> 0]

OwnIndex(obj, key) ==
    IF \E i \in DOMAIN obj : obj[i].key = key
    THEN CHOOSE i \in DOMAIN obj : obj[i].key = key
    ELSE 0

\* wordCount[word]
GetProperty(obj, key) ==
    IF OwnIndex(obj, key) # 0 THEN obj[OwnIndex(obj, key)].value
    ELSE IF key \in ObjectPrototypeKeys THEN JSObject
    ELSE JSUndefined

\* (v || 0) + 1 : a number is incremented, anything else that is truthy is
\* converted to a string and "1" is appended to it
OrZeroPlusOne(v) ==
    IF v.t = "undefined" THEN JSNumber(1)
    ELSE IF v.t = "number" THEN JSNumber(v.n + 1)
    ELSE JSString

\* wordCount[word] = v ; the __proto__ setter ignores a value that is not an object
SetProperty(obj, key, v) ==
    IF key = KeyProto THEN obj
    ELSE IF OwnIndex(obj, key) # 0
         THEN [obj EXCEPT ![OwnIndex(obj, key)].value = v]
         ELSE Append(obj, [key |-> key, value |-> v])

\* words.forEach(word => { wordCount[word] = (wordCount[word] || 0) + 1; })
RECURSIVE CountWords(_, _, _)
CountWords(words, i, obj) ==
    IF i > Len(words) THEN obj
    ELSE CountWords(words, i + 1,
                    SetProperty(obj, words[i], OrZeroPlusOne(GetProperty(obj, words[i]))))

MaxArrayIndex ==
    <<"4", "2", "9", "4", "9", "6", "7", "2", "9", "4">>

\* a <= b for canonical decimal numerals
RECURSIVE NumeralLeqAt(_, _, _)
NumeralLeqAt(a, b, i) ==
    IF i > Len(a) THEN TRUE
    ELSE IF IndexOf(Digits, a[i]) < IndexOf(Digits, b[i]) THEN TRUE
    ELSE IF IndexOf(Digits, a[i]) > IndexOf(Digits, b[i]) THEN FALSE
    ELSE NumeralLeqAt(a, b, i + 1)

NumeralLeq(a, b) ==
    Len(a) < Len(b) \/ (Len(a) = Len(b) /\ NumeralLeqAt(a, b, 1))

\* a property key that is an array index: a canonical numeral up to 2^32 - 2
IsArrayIndex(key) ==
    /\ key # <<>>
    /\ \A i \in DOMAIN key : key[i] \in Range(Digits)
    /\ (Len(key) = 1 \/ key[1] # "0")
    /\ NumeralLeq(key, MaxArrayIndex)

\* insertion of key into a sequence of numerals in ascending order
RECURSIVE InsertNumeral(_, _)
InsertNumeral(keys, key) ==
    IF keys = <<>> THEN <<key>>
    ELSE IF NumeralLeq(key, Head(keys)) THEN <<key>> \o keys
    ELSE <<Head(keys)>> \o InsertNumeral(Tail(keys), key)

RECURSIVE SortNumerals(_)
SortNumerals(keys) ==
    IF keys = <<>> THEN <<>>
    ELSE InsertNumeral(SortNumerals(Tail(keys)), Head(keys))

\* Object.keys(obj): array-index keys in ascending numeric order, then the
\* other keys in creation order
ObjectKeys(obj) ==
    LET keys == [i \in 1..Len(obj) |-> obj[i].key]
    IN  SortNumerals(SelectSeq(keys, IsArrayIndex))
            \o SelectSeq(keys, LAMBDA k : ~IsArrayIndex(k))

\* wordCount[word] / words.length : a string that is no numeral converts to NaN
DivideByLength(v, n) ==
    IF v.t = "number" THEN FDiv(FromInt(v.n), FromInt(n)) ELSE NaN

(***************************************************************************)
(* SimpleVectorStore (src/scraper.js)                                      *)
(***************************************************************************)
createEmbedding(text) ==
    LET words      == MatchWords(toLowerCase(text))
        wordCount  == CountWords(words, 1, <<>>)
        vocabulary == ObjectKeys(wordCount)
        vector     == [i \in 1..Len(vocabulary) |->
                          DivideByLength(GetProperty(wordCount, vocabulary[i]), Len(words))]
    IN  [vector |-> vector, vocabulary |-> vocabulary, text |-> text]

\* x || 0 on a vector element: undefined, NaN and 0 are falsy
OrZero(vec, idx) ==
    IF idx < 1 \/ idx > Len(vec) THEN Zero
    ELSE IF IsNaN(vec[idx]) \/ IsZero(vec[idx]) THEN Zero
    ELSE vec[idx]

\* the three accumulators after commonWords.forEach over words i..
RECURSIVE Accumulate(_, _, _, _, _, _, _)
Accumulate(commonWords, i, vec1, vec2, vocab1, vocab2, acc) ==
    IF i > Len(commonWords) THEN acc
    ELSE LET word == commonWords[i]
             val1 == OrZero(vec1, IndexOf(vocab1, word))
             val2 == OrZero(vec2, IndexOf(vocab2, word))
         IN  Accumulate(commonWords, i + 1, vec1, vec2, vocab1, vocab2,
                        [dotProduct |-> FAdd(acc.dotProduct, FMul(val1, val2)),
                         norm1      |-> FAdd(acc.norm1, FMul(val1, val1)),
                         norm2      |-> FAdd(acc.norm2, FMul(val2, val2))])

cosineSimilarity(vec1, vec2, vocab1, vocab2) ==
    LET commonWords == SelectSeq(vocab1, LAMBDA word : word \in Range(vocab2))
    IN  IF Len(commonWords) = 0 THEN Zero
        ELSE LET acc == Accumulate(commonWords, 1, vec1, vec2, vocab1, vocab2,
                                   [dotProduct |-> Zero, norm1 |-> Zero, norm2 |-> Zero])
             IN  FDiv(acc.dotProduct, FMul(FSqrt(acc.norm1), FSqrt(acc.norm2)))

(***************************************************************************)
(* The texts the model adds and queries.                                   *)
(***************************************************************************)
TextHealth ==
    <<"h", "e", "a", "l", "t", "h", " ", "i", "n", "s", "u", "r", "a", "n",
      "c", "e", " ", "c", "o", "v", "e", "r", "s", " ", "y", "o", "u">>

TextAuto ==
    <<"a", "u", "t", "o", " ", "i", "n", "s", "u", "r", "a", "n", "c", "e",
      " ", "f", "o", "r", " ", "y", "o", "u", "r", " ", "c", "a", "r">>

TextLife ==
    <<"l", "i", "f", "e", " ", "i", "n", "s", "u", "r", "a", "n", "c", "e",
      " ", "f", "o", "r", " ", "f", "a", "m", "i", "l", "y">>

TextConstructor ==
    <<"c", "o", "n", "s", "t", "r", "u", "c", "t", "o", "r">>

TextEmpty == <<>>

TextBlank ==
    <<" ">>

TextManyA ==
    <<"a", " ", "a", " ", "a", " ", "a", " ", "a", " ", "a", " ", "a", " ",
      "a", " ", "a", " ", "a", " ", "a", " ", "a", " ", "a", " ", "a", " ",
      "a", " ", "a", " ", "a", " ", "a", " ", "a", " ", "a", " ", "b">>

QueryHealth ==
    <<"h", "e", "a", "l", "t", "h", " ", "i", "n", "s", "u", "r", "a", "n",
      "c", "e">>

QueryMixed ==
    <<"H", "e", "a", "l", "t", "h", " ", "i", "n", "s", "u", "r", "a", "n",
      "c", "e", " ", "c", "o", "n", "s", "t", "r", "u", "c", "t", "o", "r">>

QueryManyB ==
    <<"a", " ", "b", " ", "b", " ", "b", " ", "b", " ", "b", " ", "b", " ",
      "b", " ", "b", " ", "b", " ", "b", " ", "b", " ", "b", " ", "b", " ",
      "b", " ", "b", " ", "b", " ", "b", " ", "b", " ", "b", " ", "b">>

DocumentTexts ==
    {TextHealth, TextAuto, TextLife, TextConstructor, TextEmpty, TextBlank, TextManyA}

QueryTexts == {QueryHealth, QueryMixed, QueryManyB}

\* createEmbedding and cosineSimilarity are pure: their values on the texts
\* of the model are computed once
Texts == DocumentTexts \cup QueryTexts

TextAAB ==
    <<"a", " ", "a", " ", "b">>

TextBAAA ==
    <<"b", " ", "a", " ", "a", " ", "a">>

TextProto ==
    <<"_", "_", "p", "r", "o", "t", "o", "_", "_", " ", "a">>

\* the texts whose embeddings cosineSimilarity is called on directly
CosineTexts == Texts \cup {TextAAB, TextBAAA}

\* messages sent to the chatbot
MessageHi == <<"h", "i">>

MessageThanks == <<"t", "h", "a", "n", "k", "s">>

ChatMessages == {QueryHealth, QueryManyB, MessageHi, MessageThanks}

EmbeddingPairs == {<<t, createEmbedding(t)>> : t \in CosineTexts \cup ChatMessages}

EmbeddingTable(text) == (CHOOSE p \in EmbeddingPairs : p[1] = text)[2]

SimilarityTriples ==
    {<<q, d, cosineSimilarity(EmbeddingTable(q).vector, EmbeddingTable(d).vector,
                              EmbeddingTable(q).vocabulary, EmbeddingTable(d).vocabulary)>> :
        q \in QueryTexts \cup ChatMessages, d \in DocumentTexts}

SimilarityTable(query, text) ==
    (CHOOSE p \in SimilarityTriples : p[1] = query /\ p[2] = text)[3]

(***************************************************************************)
(* VectorStore (src/vector_embeddings.js): the pure methods                *)
(***************************************************************************)
IsTerminator(c) == c \in {".", "!", "?"}

IsWhitespace(c) == c \in {" ", "\t", "\n", "\r"}

Min(S) == CHOOSE x \in S : \A y \in S : x <= y

Max(S) == CHOOSE x \in S : \A y \in S : x >= y

\* String.prototype.trim
trim(str) ==
    LET keep == {i \in DOMAIN str : ~IsWhitespace(str[i])}
    IN  IF keep = {} THEN <<>> ELSE SubSeq(str, Min(keep), Max(keep))

\* the maximal runs without a terminator, as <<first, last>> positions, in
\* text order from the runs that start in starts
RECURSIVE RunsFrom(_, _, _)
RunsFrom(text, starts, stops) ==
    IF starts = {} THEN <<>>
    ELSE LET first == Min(starts)
             after == {k \in stops : k > first}
             last  == IF after = {} THEN Len(text) ELSE Min(after) - 1
         IN  <<SubSeq(text, first, last)>> \o RunsFrom(text, starts \ {first}, stops)

\* text.split(/[.!?]+/): the pieces between the maximal runs of terminators,
\* with an empty piece before a leading and after a trailing run
split(text) ==
    LET n      == Len(text)
        stops  == {i \in 1..n : IsTerminator(text[i])}
        starts == {i \in 1..n : i \notin stops /\ (i = 1 \/ (i - 1) \in stops)}
    IN  IF n = 0 THEN <<<<>>>>
        ELSE (IF 1 \in stops THEN <<<<>>>> ELSE <<>>)
                 \o RunsFrom(text, starts, stops)
                 \o (IF n \in stops THEN <<<<>>>> ELSE <<>>)

\* the for loop of splitTextIntoChunks from sentence i on, and the final push
RECURSIVE ChunkLoop(_, _, _, _, _)
ChunkLoop(sentences, i, chunks, currentChunk, maxChunkSize) ==
    IF i > Len(sentences)
    THEN (IF trim(currentChunk) # <<>> THEN Append(chunks, trim(currentChunk)) ELSE chunks)
    ELSE LET sentence == sentences[i]
         IN  IF Len(currentChunk) + Len(sentence) > maxChunkSize /\ Len(currentChunk) > 0
             THEN ChunkLoop(sentences, i + 1, Append(chunks, trim(currentChunk)),
                            trim(sentence), maxChunkSize)
             ELSE ChunkLoop(sentences, i + 1, chunks,
                            currentChunk
                                \o (IF currentChunk # <<>> THEN <<".", " ">> ELSE <<>>)
                                \o trim(sentence),
                            maxChunkSize)

splitTextIntoChunks(text, maxChunkSize) ==
    LET sentences == SelectSeq(split(text), LAMBDA str : Len(trim(str)) > 0)
    IN  ChunkLoop(sentences, 1, <<>>, <<>>, maxChunkSize)

\* vector[i] in arithmetic: an index past the end reads undefined, which
\* converts to NaN
ElementOrNaN(vector, i) == IF i <= Len(vector) THEN vector[i] ELSE NaN

\* the accumulators of calculateSimilarity after the loop from i on
RECURSIVE SimilarityLoop(_, _, _, _)
SimilarityLoop(vector1, vector2, i, acc) ==
    IF i > Len(vector1) THEN acc
    ELSE SimilarityLoop(vector1, vector2, i + 1,
            [dotProduct |-> FAdd(acc.dotProduct, FMul(vector1[i], ElementOrNaN(vector2, i))),
             norm1      |-> FAdd(acc.norm1, FMul(vector1[i], vector1[i])),
             norm2      |-> FAdd(acc.norm2, FMul(ElementOrNaN(vector2, i),
                                                 ElementOrNaN(vector2, i)))])

calculateSimilarity(vector1, vector2) ==
    LET acc   == SimilarityLoop(vector1, vector2, 1,
                                [dotProduct |-> Zero, norm1 |-> Zero, norm2 |-> Zero])
        norm1 == FSqrt(acc.norm1)
        norm2 == FSqrt(acc.norm2)
    IN  IF FEq(norm1, Zero) \/ FEq(norm2, Zero) THEN Zero
        ELSE FDiv(acc.dotProduct, FMul(norm1, norm2))

(***************************************************************************)
(* Bounds of the model.                                                    *)
(***************************************************************************)
MaxDocs == 3

MaxLimit == 3

(***************************************************************************)
(* State.  documents and embeddings are the fields of the one              *)
(* SimpleVectorStore; ret is what the last call on it returned.            *)
(***************************************************************************)
VARIABLES
    documents,   \* SimpleVectorStore.documents
    embeddings,  \* SimpleVectorStore.embeddings
    ret,         \* the last call on the SimpleVectorStore and what it returned
    vectors,     \* VectorStore.vectors
    texts,       \* VectorStore.texts
    metadata,    \* VectorStore.metadata
    calls,       \* the addText calls made on the VectorStore, with their position
    pending,     \* the VectorStore.search call awaiting its query embedding
    result,      \* what the last VectorStore call other than addText returned
    disk,        \* the file saveToFile writes and loadFromFile reads
    call,        \* a call of a pure method: the method and its arguments
    out,         \* what that call returned
    chatbotVectorStore,  \* api/chatbot.js: null or the SimpleVectorStore
    knowledge,   \* the two knowledge base files initializeChatbot reads
    reply,       \* what the last request to the handler was answered
    isLoading,   \* Chatbot.isLoading
    input,       \* the chatbot-input element: its value and disabled flag
    sendBtn,     \* the chatbot-send element: its disabled flag and loading class
    messages,    \* the children of the chatbot-messages element
    sends,       \* the sendMessage calls that passed the guard, with their position
    event        \* the last click or key press handled by sendMessage

localVars == <<documents, embeddings, ret>>

storeVars == <<vectors, texts, metadata>>

remoteVars == <<storeVars, calls, pending, result, disk>>

fnVars == <<call, out>>

serverVars == <<chatbotVectorStore, knowledge, reply>>

widgetVars == <<isLoading, input, sendBtn, messages, sends, event>>

vars == <<localVars, remoteVars, fnVars, serverVars, widgetVars>>

NoReturn == [op |-> "none", query |-> <<>>, limit |-> 0, value |-> <<>>]

\* the metadata the loaders attach: the id of the segment
SegmentMetadata(n) == [id |-> n]

\* cosineSimilarity of a query embedding and a stored embedding (an embedding
\* is the value of createEmbedding on its text and is never changed)
Similarity(queryEmbedding, embedding) ==
    SimilarityTable(queryEmbedding.text, embedding.text)

\* documents.map((doc, index) => ({ document: doc, similarity: ... })); the
\* document is referred to by its position in documents
RECURSIVE SimilaritiesFrom(_, _, _)
SimilaritiesFrom(docs, queryEmbedding, i) ==
    IF i > Len(docs) THEN <<>>
    ELSE <<[document |-> i, similarity |-> Similarity(queryEmbedding, docs[i].embedding)]>>
             \o SimilaritiesFrom(docs, queryEmbedding, i + 1)

Similarities(docs, query) == SimilaritiesFrom(docs, EmbeddingTable(query), 1)

\* the comparator (a, b) => b.similarity - a.similarity as sort uses it: the
\* sign of the difference, a NaN difference counting as 0.  The difference of
\* two Numbers that are not NaN has the sign of their comparison.
CompareFn(a, b) ==
    IF IsNaN(b.similarity) \/ IsNaN(a.similarity) THEN 0
    ELSE FCmp(b.similarity, a.similarity)

\* whether CompareFn is a consistent comparison function on items.  It orders
\* the items that are not NaN by their similarity and makes a NaN item equal
\* to every item, which is transitive only if no NaN item is present or all
\* items compare equal.
ConsistentComparator(items) ==
    ~ /\ \E i \in DOMAIN items : IsNaN(items[i].similarity)
      /\ \E i, j \in DOMAIN items : CompareFn(items[i], items[j]) # 0

\* x put behind every element that does not sort after it
RECURSIVE InsertSorted(_, _)
InsertSorted(sorted, x) ==
    IF sorted = <<>> THEN <<x>>
    ELSE IF CompareFn(Head(sorted), x) <= 0 THEN <<Head(sorted)>> \o InsertSorted(Tail(sorted), x)
    ELSE <<x>> \o sorted

RECURSIVE StableSortFrom(_, _, _)
StableSortFrom(items, i, sorted) ==
    IF i > Len(items) THEN sorted
    ELSE StableSortFrom(items, i + 1, InsertSorted(sorted, items[i]))

StableSort(items) == StableSortFrom(items, 1, <<>>)

Orderings(n) ==
    {p \in [1..n -> 1..n] : \A i, j \in 1..n : p[i] = p[j] => i = j}

\* Array.prototype.sort(CompareFn): a stable sort when the comparator is
\* consistent, and otherwise an implementation-defined order of the elements
SortOutcomes(items) ==
    IF ConsistentComparator(items) THEN {StableSort(items)}
    ELSE {[i \in 1..Len(items) |-> items[p[i]]] : p \in Orderings(Len(items))}

\* slice(0, limit) for limit >= 0
Slice(items, limit) ==
    IF limit >= Len(items) THEN items ELSE SubSeq(items, 1, limit)

\* the literal 0.1
Threshold == FDiv(FromInt(1), FromInt(10))

\* filter(item => item.similarity > 0.1)
FilterLow(items) == SelectSeq(items, LAMBDA item : FGt(item.similarity, Threshold))

\* the values search(query, limit) can return on docs
SearchOutcomes(docs, query, limit) ==
    {FilterLow(Slice(sorted, limit)) : sorted \in SortOutcomes(Similarities(docs, query))}

LocalInit ==
    /\ documents = <<>>
    /\ embeddings = <<>>
    /\ ret = NoReturn

\* AddDocument that keeps only the new document
AddDocumentReplacing(text, meta) ==
    /\ Len(documents) < MaxDocs
    /\ LET embedding == EmbeddingTable(text)
       IN  /\ documents' = <<[text |-> text, metadata |-> meta, embedding |-> embedding]>>
           /\ embeddings' = <<embedding>>
    /\ ret' = [NoReturn EXCEPT !.op = "addDocument"]
    /\ UNCHANGED <<remoteVars, fnVars, serverVars, widgetVars>>

AddDocument(text, meta) ==
    /\ Len(documents) < MaxDocs
    /\ LET embedding == EmbeddingTable(text)
       IN  /\ documents' = Append(documents, [text |-> text, metadata |-> meta,
                                               embedding |-> embedding])
           /\ embeddings' = Append(embeddings, embedding)
    /\ ret' = [NoReturn EXCEPT !.op = "addDocument"]
    /\ UNCHANGED <<remoteVars, fnVars, serverVars, widgetVars>>

Search(query, limit) ==
    /\ \E value \in SearchOutcomes(documents, query, limit) :
           ret' = [op |-> "search", query |-> query, limit |-> limit, value |-> value]
    /\ UNCHANGED <<documents, embeddings>>
    /\ UNCHANGED <<remoteVars, fnVars, serverVars, widgetVars>>

(***************************************************************************)
(* The chatbot endpoint (src/api/chatbot.js).  chatbotVectorStore is null  *)
(* or refers to the SimpleVectorStore whose fields are documents and       *)
(* embeddings.  A request is handled in one run: the handler has no await. *)
(***************************************************************************)
\* a knowledge base file: one that cannot be read, one that cannot be
\* parsed, a JSON array of segments, or a JSON object with a documents array
MissingFile == [kind |-> "missing"]

InvalidJSON == [kind |-> "unparseable"]

ArrayFile(segments) == [kind |-> "array", segments |-> segments]

ObjectFile(docs) == [kind |-> "object", documents |-> docs]

\* segments in the format of the text extraction, in the original format,
\* and with neither content nor text
ContentSegment(text, id) == [content |-> text, id |-> id]

TextSegment(text, id) == [text |-> text, id |-> id]

BareSegment(id) == [id |-> id]

KnowledgeFiles ==
    {MissingFile, InvalidJSON, ArrayFile(<<>>),
     ArrayFile(<<ContentSegment(TextHealth, 1), TextSegment(TextAuto, 2), BareSegment(3)>>),
     ArrayFile(<<BareSegment(1)>>),
     ObjectFile(<<TextSegment(TextConstructor, 1), ContentSegment(TextEmpty, 2)>>)}

NoKnowledge == [fromText |-> MissingFile, original |-> MissingFile]

\* JSON.parse(fs.readFileSync(path, 'utf8')) throws
Unreadable(file) == file.kind \in {"missing", "unparseable"}

\* originalData.documents ? originalData.documents : originalData, and
\* Array.isArray(knowledgeData) ? knowledgeData : knowledgeData.documents
Segments(file) == IF file.kind = "array" THEN file.segments ELSE file.documents

\* segment.content, resp. segment.text, is truthy
HasText(segment, field) == field \in DOMAIN segment /\ segment[field] # <<>>

\* segments.forEach(...): the documents of the new store
RECURSIVE LoadSegments(_, _, _)
LoadSegments(segments, i, docs) ==
    IF i > Len(segments) THEN docs
    ELSE LET segment == segments[i]
             text == IF HasText(segment, "content") THEN segment.content
                     ELSE IF HasText(segment, "text") THEN segment.text
                     ELSE <<>>
         IN  IF HasText(segment, "content") \/ HasText(segment, "text")
             THEN LoadSegments(segments, i + 1,
                               Append(docs, [text |-> text,
                                             metadata |-> SegmentMetadata(segment.id),
                                             embedding |-> EmbeddingTable(text)]))
             ELSE LoadSegments(segments, i + 1, docs)

\* what initializeChatbot leaves and returns when it throws inside its try
InitializeFailed == [store |-> "null", documents |-> <<>>, value |-> FALSE]

\* initializeChatbot that reports success also when it has failed
initializeChatbotAlwaysTrue(files) ==
    IF Unreadable(files.fromText) /\ Unreadable(files.original)
    THEN [InitializeFailed EXCEPT !.value = TRUE]
    ELSE LET file == IF Unreadable(files.fromText) THEN files.original ELSE files.fromText
         IN  IF Len(Segments(file)) = 0
             THEN [InitializeFailed EXCEPT !.value = TRUE]
             ELSE [store |-> "SimpleVectorStore",
                   documents |-> LoadSegments(Segments(file), 1, <<>>),
                   value |-> TRUE]

\* initializeChatbot(): the value of chatbotVectorStore and the documents of
\* the store afterwards, and the value returned
initializeChatbot(files) ==
    IF Unreadable(files.fromText) /\ Unreadable(files.original)
    THEN InitializeFailed
    ELSE LET file == IF Unreadable(files.fromText) THEN files.original ELSE files.fromText
         IN  IF Len(Segments(file)) = 0
             THEN InitializeFailed
             ELSE [store |-> "SimpleVectorStore",
                   documents |-> LoadSegments(Segments(file), 1, <<>>),
                   value |-> TRUE]

\* str.includes(sub) for a non-empty sub
Includes(str, sub) ==
    \E i \in 0..(Len(str) - Len(sub)) : SubSeq(str, i + 1, i + Len(sub)) = sub

GreetingResponse ==
    <<"H", "e", "l", "l", "o", "!", " ", "I", "'", "m", " ", "h", "e", "r",
      "e", " ", "t", "o", " ", "h", "e", "l", "p", " ", "y", "o", "u", " ",
      "w", "i", "t", "h", " ", "i", "n", "s", "u", "r", "a", "n", "c", "e",
      "-", "r", "e", "l", "a", "t", "e", "d", " ", "q", "u", "e", "s", "t",
      "i", "o", "n", "s", ".", " ", "H", "o", "w", " ", "c", "a", "n", " ",
      "I", " ", "a", "s", "s", "i", "s", "t", " ", "y", "o", "u", " ", "t",
      "o", "d", "a", "y", "?">>

ThanksResponse ==
    <<"Y", "o", "u", "'", "r", "e", " ", "w", "e", "l", "c", "o", "m", "e",
      "!", " ", "I", "s", " ", "t", "h", "e", "r", "e", " ", "a", "n", "y",
      "t", "h", "i", "n", "g", " ", "e", "l", "s", "e", " ", "I", " ", "c",
      "a", "n", " ", "h", "e", "l", "p", " ", "y", "o", "u", " ", "w", "i",
      "t", "h", " ", "r", "e", "g", "a", "r", "d", "i", "n", "g", " ", "i",
      "n", "s", "u", "r", "a", "n", "c", "e", "?">>

DefaultResponse ==
    <<"I", "'", "d", " ", "b", "e", " ", "h", "a", "p", "p", "y", " ", "t",
      "o", " ", "h", "e", "l", "p", " ", "y", "o", "u", " ", "w", "i", "t",
      "h", " ", "i", "n", "s", "u", "r", "a", "n", "c", "e", "-", "r", "e",
      "l", "a", "t", "e", "d", " ", "q", "u", "e", "s", "t", "i", "o", "n",
      "s", ".", " ", "C", "o", "u", "l", "d", " ", "y", "o", "u", " ", "p",
      "l", "e", "a", "s", "e", " ", "p", "r", "o", "v", "i", "d", "e", " ",
      "m", "o", "r", "e", " ", "s", "p", "e", "c", "i", "f", "i", "c", " ",
      "d", "e", "t", "a", "i", "l", "s", " ", "a", "b", "o", "u", "t", " ",
      "w", "h", "a", "t", " ", "t", "y", "p", "e", " ", "o", "f", " ", "i",
      "n", "s", "u", "r", "a", "n", "c", "e", " ", "i", "n", "f", "o", "r",
      "m", "a", "t", "i", "o", "n", " ", "y", "o", "u", "'", "r", "e", " ",
      "l", "o", "o", "k", "i", "n", "g", " ", "f", "o", "r", "?", " ", "W",
      "e", " ", "o", "f", "f", "e", "r", " ", "v", "a", "r", "i", "o", "u",
      "s", " ", "t", "y", "p", "e", "s", " ", "o", "f", " ", "i", "n", "s",
      "u", "r", "a", "n", "c", "e", " ", "i", "n", "c", "l", "u", "d", "i",
      "n", "g", " ", "h", "e", "a", "l", "t", "h", ",", " ", "l", "i", "f",
      "e", ",", " ", "a", "u", "t", "o", ",", " ", "a", "n", "d", " ", "p",
      "r", "o", "p", "e", "r", "t", "y", " ", "i", "n", "s", "u", "r", "a",
      "n", "c", "e", ".">>

BasedOn ==
    <<"B", "a", "s", "e", "d", " ", "o", "n", " ", "o", "u", "r", " ", "i",
      "n", "s", "u", "r", "a", "n", "c", "e", " ", "i", "n", "f", "o", "r",
      "m", "a", "t", "i", "o", "n", ":", " ">>

Additionally ==
    <<"\n", "\n", "A", "d", "d", "i", "t", "i", "o", "n", "a", "l", "l",
      "y", ":", " ">>

UndefinedString ==
    <<"u", "n", "d", "e", "f", "i", "n", "e", "d">>

\* `${result.content}` for an item search returned: the item has the
\* properties document and similarity, and a property it lacks reads undefined
ContentOf(item) == IF "content" \in DOMAIN item THEN item.content ELSE UndefinedString

\* the response text the handler builds
ResponseText(message, searchResults) ==
    LET lowerMessage == toLowerCase(message)
    IN  IF \/ Includes(lowerMessage, <<"h", "e", "l", "l", "o">>)
           \/ Includes(lowerMessage, <<"h", "i">>)
           \/ Includes(lowerMessage, <<"h", "e", "y">>)
        THEN GreetingResponse
        ELSE IF \/ Includes(lowerMessage, <<"t", "h", "a", "n", "k">>)
                \/ Includes(lowerMessage, <<"t", "h", "a", "n", "k", "s">>)
        THEN ThanksResponse
        ELSE IF Len(searchResults) > 0
        THEN BasedOn \o ContentOf(searchResults[1])
                 \o (IF Len(searchResults) > 1
                     THEN Additionally \o ContentOf(searchResults[2])
                     ELSE <<>>)
        ELSE DefaultResponse

ChatbotLimit == 3

NoReply ==
    [status |-> 0, error |-> "none", response |-> <<>>,
     initialized |-> "not called", searched |-> "not called"]

\* res.status(status).json({ error })
ErrorReply(status, error, initialized, searched) ==
    [status |-> status, error |-> error, response |-> <<>>,
     initialized |-> initialized, searched |-> searched]

Methods == {"POST", "OPTIONS", "GET"}

\* request bodies: with a message, with an empty message, without one
Bodies == {[message |-> m] : m \in ChatMessages \cup {<<>>}} \cup {[other |-> <<>>]}

ServerIdle ==
    /\ chatbotVectorStore = "null"
    /\ knowledge = NoKnowledge
    /\ reply = NoReply

\* the module is loaded: initializeChatbot() runs once
ServerInit ==
    /\ knowledge \in [fromText : KnowledgeFiles, original : KnowledgeFiles]
    /\ LET loaded == initializeChatbot(knowledge)
       IN  /\ chatbotVectorStore = loaded.store
           /\ documents = loaded.documents
           /\ embeddings = [i \in DOMAIN loaded.documents |-> loaded.documents[i].embedding]
    /\ ret = NoReturn
    /\ reply = NoReply

\* the knowledge base files are replaced
Deploy(files) ==
    /\ knowledge' = files
    /\ UNCHANGED <<chatbotVectorStore, reply>>
    /\ UNCHANGED <<localVars, remoteVars, fnVars, widgetVars>>

\* handler(req, res)
Handler(method, body) ==
    /\ IF method = "OPTIONS"
       THEN /\ reply' = [NoReply EXCEPT !.status = 200]
            /\ UNCHANGED <<chatbotVectorStore, localVars>>
       ELSE IF method # "POST"
       THEN /\ reply' = ErrorReply(405, "Method not allowed", "not called", "not called")
            /\ UNCHANGED <<chatbotVectorStore, localVars>>
       ELSE IF ~("message" \in DOMAIN body) \/ body.message = <<>>
       THEN /\ reply' = ErrorReply(400, "Message is required and must be a string",
                                   "not called", "not called")
            /\ UNCHANGED <<chatbotVectorStore, localVars>>
       ELSE LET called == chatbotVectorStore = "null"
                initialized == IF called THEN initializeChatbot(knowledge)
                               ELSE [store |-> chatbotVectorStore,
                                     documents |-> documents, value |-> TRUE]
                returned == IF ~called THEN "not called"
                            ELSE IF initialized.value THEN "true" ELSE "false"
            IN  /\ chatbotVectorStore' = initialized.store
                /\ documents' = initialized.documents
                /\ embeddings' = [i \in DOMAIN initialized.documents |->
                                      initialized.documents[i].embedding]
                /\ IF called /\ ~initialized.value
                   THEN /\ reply' = ErrorReply(500, "Chatbot service is currently unavailable. Please try again later.",
                                               returned, "not called")
                        /\ ret' = ret
                   ELSE IF initialized.store = "null"
                   THEN \* chatbotVectorStore.search throws a TypeError
                        /\ reply' = ErrorReply(500, "An error occurred while processing your request. Please try again later.",
                                               returned, "null")
                        /\ ret' = ret
                   ELSE \E value \in SearchOutcomes(initialized.documents, body.message,
                                                    ChatbotLimit) :
                            /\ ret' = [op |-> "search", query |-> body.message,
                                       limit |-> ChatbotLimit, value |-> value]
                            /\ reply' = [status |-> 200, error |-> "none",
                                         response |-> ResponseText(body.message, value),
                                         initialized |-> returned,
                                         searched |-> initialized.store]
    /\ UNCHANGED knowledge
    /\ UNCHANGED <<remoteVars, fnVars, widgetVars>>

(***************************************************************************)
(* The chat widget (src/chatbot.js).  sendMessage runs up to its await of  *)
(* fetch, then up to its await of response.json(), then to its end; the    *)
(* network settles the promise a call awaits, and the call resumes after.  *)
(***************************************************************************)
MaxSends == 2

Thinking ==
    <<"T", "h", "i", "n", "k", "i", "n", "g", ".", ".", ".">>

SorryError ==
    <<"S", "o", "r", "r", "y", ",", " ", "I", " ", "e", "n", "c", "o", "u",
      "n", "t", "e", "r", "e", "d", " ", "a", "n", " ", "e", "r", "r", "o",
      "r", ".", " ", "P", "l", "e", "a", "s", "e", " ", "t", "r", "y", " ",
      "a", "g", "a", "i", "n", ".">>

SorryConnecting ==
    <<"S", "o", "r", "r", "y", ",", " ", "I", "'", "m", " ", "h", "a", "v",
      "i", "n", "g", " ", "t", "r", "o", "u", "b", "l", "e", " ", "c", "o",
      "n", "n", "e", "c", "t", "i", "n", "g", ".", " ", "P", "l", "e", "a",
      "s", "e", " ", "t", "r", "y", " ", "a", "g", "a", "i", "n", " ", "l",
      "a", "t", "e", "r", ".">>

\* what the user types into the input
InputValues == {<<>>, <<" ">>, MessageHi}

\* the JSON bodies of a reply: the success and failure replies of the server,
\* an error reply, the reply of api/chatbot.js, and null
DataSuccess == [success |-> TRUE, message |-> <<"o", "k">>]

DataFailure == [success |-> FALSE, message |-> <<"n", "o">>]

DataError == [error |-> <<"b", "u", "s", "y">>]

DataResponse == [response |-> <<"o", "k">>]

DataNull == [null |-> TRUE]

Datas == {DataSuccess, DataFailure, DataError, DataResponse, DataNull}

NoData == [none |-> TRUE]

NoEvent == [trigger |-> "none", started |-> FALSE, n |-> 0]

WidgetIdle ==
    /\ isLoading = FALSE
    /\ input = [value |-> <<>>, disabled |-> FALSE]
    /\ sendBtn = [disabled |-> FALSE, loading |-> FALSE]
    /\ messages = <<>>
    /\ sends = <<>>
    /\ event = NoEvent

\* addMessage(content, sender, isLoading) for the call send
Message(send, content, sender, loading) ==
    [send |-> send, content |-> content, sender |-> sender, loading |-> loading]

\* loadingMessage.remove() for the call send
RemoveLoading(children, send) ==
    SelectSeq(children, LAMBDA m : ~(m.send = send /\ m.loading))

\* the value changes: the user types, or a script sets it
SetValue(value) ==
    /\ input' = [input EXCEPT !.value = value]
    /\ UNCHANGED <<isLoading, sendBtn, messages, sends, event>>
    /\ UNCHANGED <<localVars, remoteVars, fnVars, serverVars>>

\* SendMessage without the test of isLoading
SendMessageUnguarded(trigger) ==
    LET message == trim(input.value)
    IN  /\ IF message = <<>>
           THEN /\ event' = [trigger |-> trigger, started |-> FALSE, n |-> 1 - event.n]
                /\ UNCHANGED <<isLoading, input, sendBtn, messages, sends>>
           ELSE /\ Len(sends) < MaxSends
                /\ event' = [trigger |-> trigger, started |-> TRUE, n |-> 1 - event.n]
                /\ messages' = messages
                                   \o <<Message(Len(sends) + 1, message, "user", FALSE),
                                        Message(Len(sends) + 1, Thinking, "bot", TRUE)>>
                /\ input' = [value |-> <<>>, disabled |-> TRUE]
                /\ isLoading' = TRUE
                /\ sendBtn' = [disabled |-> TRUE, loading |-> TRUE]
                /\ sends' = Append(sends, [message |-> message, pc |-> "fetch",
                                           promise |-> "pending", ok |-> FALSE,
                                           data |-> NoData])
        /\ UNCHANGED <<localVars, remoteVars, fnVars, serverVars>>

\* sendMessage() after a click on the button or a press of Enter, up to its
\* first await
SendMessage(trigger) ==
    LET message == trim(input.value)
    IN  /\ IF message = <<>> \/ isLoading
           THEN /\ event' = [trigger |-> trigger, started |-> FALSE, n |-> 1 - event.n]
                /\ UNCHANGED <<isLoading, input, sendBtn, messages, sends>>
           ELSE /\ Len(sends) < MaxSends
                /\ event' = [trigger |-> trigger, started |-> TRUE, n |-> 1 - event.n]
                /\ messages' = messages
                                   \o <<Message(Len(sends) + 1, message, "user", FALSE),
                                        Message(Len(sends) + 1, Thinking, "bot", TRUE)>>
                /\ input' = [value |-> <<>>, disabled |-> TRUE]
                /\ isLoading' = TRUE
                /\ sendBtn' = [disabled |-> TRUE, loading |-> TRUE]
                /\ sends' = Append(sends, [message |-> message, pc |-> "fetch",
                                           promise |-> "pending", ok |-> FALSE,
                                           data |-> NoData])
        /\ UNCHANGED <<localVars, remoteVars, fnVars, serverVars>>

\* the fetch of call c resolves with a response, or rejects
FetchSettled(c, settled, ok) ==
    /\ sends[c].pc = "fetch" /\ sends[c].promise = "pending"
    /\ sends' = [sends EXCEPT ![c].promise = settled, ![c].ok = ok]
    /\ UNCHANGED <<isLoading, input, sendBtn, messages, event>>
    /\ UNCHANGED <<localVars, remoteVars, fnVars, serverVars>>

\* response.json() of call c resolves with the parsed body, or rejects
BodySettled(c, settled, data) ==
    /\ sends[c].pc = "json" /\ sends[c].promise = "pending"
    /\ sends' = [sends EXCEPT ![c].promise = settled, ![c].data = data]
    /\ UNCHANGED <<isLoading, input, sendBtn, messages, event>>
    /\ UNCHANGED <<localVars, remoteVars, fnVars, serverVars>>

\* the content of the bot message lines 83-92 add for a reply, and whether
\* reading data.success or data.error throws a TypeError
ReadThrows(data) == "null" \in DOMAIN data

\* a string property of data that is present and not empty
Truthy(data, field) == field \in DOMAIN data /\ data[field] # <<>>

ReplyContent(ok, data) ==
    IF ok /\ "success" \in DOMAIN data /\ data.success
    THEN data.message
    ELSE IF Truthy(data, "error")
    THEN data.error
    ELSE IF Truthy(data, "message") THEN data.message ELSE SorryError

\* Resume that skips the finally block
ResumeWithoutFinally(c) ==
    /\ c \in DOMAIN sends
    /\ sends[c].promise # "pending"
    /\ IF sends[c].pc = "fetch" /\ sends[c].promise = "resolved"
       THEN /\ sends' = [sends EXCEPT ![c].pc = "json", ![c].promise = "pending"]
            /\ UNCHANGED <<isLoading, input, sendBtn, messages>>
       ELSE /\ sends[c].pc \in {"fetch", "json"}
            /\ LET content == IF sends[c].promise = "rejected" \/ ReadThrows(sends[c].data)
                              THEN SorryConnecting
                              ELSE ReplyContent(sends[c].ok, sends[c].data)
               IN  messages' = Append(RemoveLoading(messages, c),
                                      Message(c, content, "bot", FALSE))
            /\ sends' = [sends EXCEPT ![c].pc = "done"]
            /\ UNCHANGED <<isLoading, input, sendBtn>>
    /\ UNCHANGED event
    /\ UNCHANGED <<localVars, remoteVars, fnVars, serverVars>>

\* call c resumes after the promise it awaits has settled: after fetch it
\* calls response.json() and awaits again, or runs the catch block; after
\* response.json() it removes the loading message and adds the reply, or
\* runs the catch block; the finally block ends the call
Resume(c) ==
    /\ c \in DOMAIN sends
    /\ sends[c].promise # "pending"
    /\ IF sends[c].pc = "fetch" /\ sends[c].promise = "resolved"
       THEN /\ sends' = [sends EXCEPT ![c].pc = "json", ![c].promise = "pending"]
            /\ UNCHANGED <<isLoading, input, sendBtn, messages>>
       ELSE /\ sends[c].pc \in {"fetch", "json"}
            /\ LET content == IF sends[c].promise = "rejected" \/ ReadThrows(sends[c].data)
                              THEN SorryConnecting
                              ELSE ReplyContent(sends[c].ok, sends[c].data)
               IN  messages' = Append(RemoveLoading(messages, c),
                                      Message(c, content, "bot", FALSE))
            /\ sends' = [sends EXCEPT ![c].pc = "done"]
            /\ isLoading' = FALSE
            /\ sendBtn' = [disabled |-> FALSE, loading |-> FALSE]
            /\ input' = [input EXCEPT !.disabled = FALSE]
    /\ UNCHANGED event
    /\ UNCHANGED <<localVars, remoteVars, fnVars, serverVars>>

(***************************************************************************)
(* VectorStore: addText.  Each call splits its text, then awaits one       *)
(* embedding per chunk; the embedding service answers a pending request    *)
(* with a vector or with an error, and calls made without awaiting one     *)
(* another interleave at these awaits.                                     *)
(***************************************************************************)
DefaultMaxChunkSize == 1000

SentenceLength == 600

Sentence(c) == [i \in 1..SentenceLength |-> c]

\* two sentences, each one a chunk of its own
TextLong ==
    Sentence("a") \o <<".", " ">> \o Sentence("b") \o <<"!">>

RemoteTexts == {TextLong, TextHealth, TextEmpty, TextBlank}

ChunkPairs == {<<t, splitTextIntoChunks(t, DefaultMaxChunkSize)>> : t \in RemoteTexts}

ChunkTable(text) == (CHOOSE p \in ChunkPairs : p[1] = text)[2]

Vector(ints) == [i \in 1..Len(ints) |-> FromInt(ints[i])]

\* the vectors the embedding service answers with
EmbeddingValues == {Vector(<<1, 0>>), Vector(<<1, 2>>)}

MaxCalls == 2

\* the errors the embedding service answers with
Errors == {"network", "quota"}

NoSearch == [pc |-> "idle"]

NoResult == [op |-> "none"]

NoFile == [exists |-> FALSE]

RemoteInit ==
    /\ vectors = <<>>
    /\ texts = <<>>
    /\ metadata = <<>>
    /\ calls = <<>>
    /\ pending = NoSearch
    /\ result = NoResult
    /\ disk = NoFile

\* addText(text, meta) up to its first await
AddText(text, meta) ==
    /\ Len(calls) < MaxCalls
    /\ LET chunks == ChunkTable(text)
       IN  calls' = Append(calls, [text |-> text, metadata |-> meta, chunks |-> chunks,
                                   i |-> 0, error |-> "none",
                                   pc |-> IF Len(chunks) = 0 THEN "done" ELSE "embedding"])
    /\ UNCHANGED <<vectors, texts, metadata>>
    /\ UNCHANGED <<pending, result, disk>>
    /\ UNCHANGED <<localVars, fnVars, serverVars, widgetVars>>

\* EmbeddingResolved with unshift in place of push
EmbeddingResolvedUnshift(c, embedding) ==
    /\ calls[c].pc = "embedding"
    /\ LET this == calls[c]
       IN  /\ vectors' = <<embedding>> \o vectors
           /\ texts' = <<this.chunks[this.i + 1]>> \o texts
           /\ metadata' = <<[caller |-> this.metadata,
                             chunkIndex |-> this.i,
                             totalChunks |-> Len(this.chunks),
                             originalLength |-> Len(this.text)]>> \o metadata
           /\ calls' = [calls EXCEPT ![c].i = this.i + 1,
                                     ![c].pc = IF this.i + 1 < Len(this.chunks)
                                               THEN "embedding" ELSE "done"]
    /\ UNCHANGED <<pending, result, disk>>
    /\ UNCHANGED <<localVars, fnVars, serverVars, widgetVars>>

\* EmbeddingResolved with chunkIndex counted from 1
EmbeddingResolvedOneBased(c, embedding) ==
    /\ calls[c].pc = "embedding"
    /\ LET this == calls[c]
       IN  /\ vectors' = Append(vectors, embedding)
           /\ texts' = Append(texts, this.chunks[this.i + 1])
           /\ metadata' = Append(metadata, [caller |-> this.metadata,
                                            chunkIndex |-> this.i + 1,
                                            totalChunks |-> Len(this.chunks),
                                            originalLength |-> Len(this.text)])
           /\ calls' = [calls EXCEPT ![c].i = this.i + 1,
                                     ![c].pc = IF this.i + 1 < Len(this.chunks)
                                               THEN "embedding" ELSE "done"]
    /\ UNCHANGED <<pending, result, disk>>
    /\ UNCHANGED <<localVars, fnVars, serverVars, widgetVars>>

\* EmbeddingResolved that pushes the text and the metadata without the vector
EmbeddingResolvedWithoutVector(c, embedding) ==
    /\ calls[c].pc = "embedding"
    /\ LET this == calls[c]
       IN  /\ vectors' = vectors
           /\ texts' = Append(texts, this.chunks[this.i + 1])
           /\ metadata' = Append(metadata, [caller |-> this.metadata,
                                            chunkIndex |-> this.i,
                                            totalChunks |-> Len(this.chunks),
                                            originalLength |-> Len(this.text)])
           /\ calls' = [calls EXCEPT ![c].i = this.i + 1,
                                     ![c].pc = IF this.i + 1 < Len(this.chunks)
                                               THEN "embedding" ELSE "done"]
    /\ UNCHANGED <<pending, result, disk>>
    /\ UNCHANGED <<localVars, fnVars, serverVars, widgetVars>>

\* generateEmbedding resolves for call c: the three pushes, and the loop up to
\* the next await or the end
EmbeddingResolved(c, embedding) ==
    /\ calls[c].pc = "embedding"
    /\ LET this == calls[c]
       IN  /\ vectors' = Append(vectors, embedding)
           /\ texts' = Append(texts, this.chunks[this.i + 1])
           /\ metadata' = Append(metadata, [caller |-> this.metadata,
                                            chunkIndex |-> this.i,
                                            totalChunks |-> Len(this.chunks),
                                            originalLength |-> Len(this.text)])
           /\ calls' = [calls EXCEPT ![c].i = this.i + 1,
                                     ![c].pc = IF this.i + 1 < Len(this.chunks)
                                               THEN "embedding" ELSE "done"]
    /\ UNCHANGED <<pending, result, disk>>
    /\ UNCHANGED <<localVars, fnVars, serverVars, widgetVars>>

\* EmbeddingRejected that stores the chunk without a vector
EmbeddingRejectedAppending(c, error) ==
    /\ calls[c].pc = "embedding"
    /\ LET this == calls[c]
       IN  /\ vectors' = Append(vectors, <<>>)
           /\ texts' = Append(texts, this.chunks[this.i + 1])
           /\ metadata' = Append(metadata, [caller |-> this.metadata,
                                            chunkIndex |-> this.i,
                                            totalChunks |-> Len(this.chunks),
                                            originalLength |-> Len(this.text)])
    /\ calls' = [calls EXCEPT ![c].pc = "failed", ![c].error = error]
    /\ UNCHANGED <<pending, result, disk>>
    /\ UNCHANGED <<localVars, fnVars, serverVars, widgetVars>>

\* generateEmbedding rejects for call c with error: addText rethrows it
EmbeddingRejected(c, error) ==
    /\ calls[c].pc = "embedding"
    /\ calls' = [calls EXCEPT ![c].pc = "failed", ![c].error = error]
    /\ UNCHANGED <<vectors, texts, metadata>>
    /\ UNCHANGED <<pending, result, disk>>
    /\ UNCHANGED <<localVars, fnVars, serverVars, widgetVars>>

(***************************************************************************)
(* VectorStore: search, getStats, saveToFile and loadFromFile.  search     *)
(* awaits the embedding of its query and reads the store when the          *)
(* embedding arrives; the other three run to completion.                   *)
(***************************************************************************)
MaxTopK == 2

RemoteQueries == {QueryHealth}

\* array[i] for an index that may lie past the end
ElementOrUndefined(array, i) == IF i \in DOMAIN array THEN array[i] ELSE JSUndefined

\* the vectors a store holds: embeddings, or the vectors of a file written
\* by another program, with other dimensions
ForeignVectors == <<Vector(<<1>>), Vector(<<1, 2, 2>>)>>

StoredVectors == EmbeddingValues \cup Range(ForeignVectors)

\* calculateSimilarity is pure: its values on the vectors of the model are
\* computed once
VectorSimilarityTriples ==
    {<<q, v, calculateSimilarity(q, v)>> : q \in EmbeddingValues, v \in StoredVectors}

VectorSimilarityTable(queryEmbedding, vector) ==
    (CHOOSE p \in VectorSimilarityTriples : p[1] = queryEmbedding /\ p[2] = vector)[3]

\* similarities.push({ text, metadata, similarity, index }) for i = from - 1 ..
RECURSIVE RemoteSimilaritiesFrom(_, _, _)
RemoteSimilaritiesFrom(store, queryEmbedding, from) ==
    IF from > Len(store.vectors) THEN <<>>
    ELSE <<[text       |-> ElementOrUndefined(store.texts, from),
            metadata   |-> ElementOrUndefined(store.metadata, from),
            similarity |-> VectorSimilarityTable(queryEmbedding, store.vectors[from]),
            index      |-> from - 1]>>
             \o RemoteSimilaritiesFrom(store, queryEmbedding, from + 1)

\* the three arrays of the store, and those of a new VectorStore
ThisStore == [vectors |-> vectors, texts |-> texts, metadata |-> metadata]

EmptyStore == [vectors |-> <<>>, texts |-> <<>>, metadata |-> <<>>]

\* the similarities array search builds for a query embedding
RemoteSimilarities(queryEmbedding) == RemoteSimilaritiesFrom(ThisStore, queryEmbedding, 1)

\* the values search can return once the query embedding has arrived
RemoteSearchOutcomes(queryEmbedding, topK) ==
    {Slice(sorted, topK) : sorted \in SortOutcomes(RemoteSimilarities(queryEmbedding))}

\* search(query, topK) up to its await
SearchStart(query, topK) ==
    /\ pending = NoSearch
    /\ pending' = [pc |-> "embedding", query |-> query, topK |-> topK]
    /\ UNCHANGED <<storeVars, calls, result, disk>>
    /\ UNCHANGED <<localVars, fnVars, serverVars, widgetVars>>

\* SearchResolved that throws on an empty store
SearchResolvedFailingOnEmpty(queryEmbedding) ==
    /\ pending # NoSearch
    /\ IF vectors = <<>>
       THEN result' = [op |-> "search", error |-> "TypeError",
                       queryEmbedding |-> queryEmbedding, value |-> <<>>]
       ELSE \E value \in RemoteSearchOutcomes(queryEmbedding, pending.topK) :
                result' = [op |-> "search", error |-> "none",
                           queryEmbedding |-> queryEmbedding, value |-> value]
    /\ pending' = NoSearch
    /\ UNCHANGED <<storeVars, calls, disk>>
    /\ UNCHANGED <<localVars, fnVars, serverVars, widgetVars>>

\* generateEmbedding resolves for the pending search: the loop, sort and slice
SearchResolved(queryEmbedding) ==
    /\ pending # NoSearch
    /\ \E value \in RemoteSearchOutcomes(queryEmbedding, pending.topK) :
           result' = [op |-> "search", error |-> "none",
                      queryEmbedding |-> queryEmbedding, value |-> value]
    /\ pending' = NoSearch
    /\ UNCHANGED <<storeVars, calls, disk>>
    /\ UNCHANGED <<localVars, fnVars, serverVars, widgetVars>>

\* SearchRejected that also empties the store
SearchRejectedClearing(error) ==
    /\ pending # NoSearch
    /\ result' = [op |-> "search", error |-> error,
                  queryEmbedding |-> <<>>, value |-> <<>>]
    /\ pending' = NoSearch
    /\ vectors' = <<>> /\ texts' = <<>> /\ metadata' = <<>>
    /\ UNCHANGED <<calls, disk>>
    /\ UNCHANGED <<localVars, fnVars, serverVars, widgetVars>>

\* generateEmbedding rejects for the pending search: search rethrows
SearchRejected(error) ==
    /\ pending # NoSearch
    /\ result' = [op |-> "search", error |-> error,
                  queryEmbedding |-> <<>>, value |-> <<>>]
    /\ pending' = NoSearch
    /\ UNCHANGED <<storeVars, calls, disk>>
    /\ UNCHANGED <<localVars, fnVars, serverVars, widgetVars>>

\* this.texts.reduce((sum, text) => sum + text.length, 0): a sum of integers
RECURSIVE SumLengths(_, _)
SumLengths(strings, i) ==
    IF i > Len(strings) THEN 0 ELSE Len(strings[i]) + SumLengths(strings, i + 1)

GetStats ==
    /\ result' = [op |-> "getStats",
                  value |-> [totalVectors      |-> Len(vectors),
                             totalTexts        |-> Len(texts),
                             averageTextLength |-> FDiv(FromInt(SumLengths(texts, 1)),
                                                        FromInt(Len(texts))),
                             vectorDimension   |-> IF Len(vectors) > 0
                                                   THEN Len(vectors[1]) ELSE 0]]
    /\ UNCHANGED <<storeVars, calls, pending, disk>>
    /\ UNCHANGED <<localVars, fnVars, serverVars, widgetVars>>

JSNull == [k |-> "null"]

\* JSON.stringify of a Number: NaN and the infinities are written as null,
\* every other Number as the shortest numeral that reads back as itself
JSONNumber(x) == IF IsNaN(x) \/ IsInfinite(x) THEN JSNull ELSE x

JSONVectors(array) ==
    [i \in 1..Len(array) |-> [j \in 1..Len(array[i]) |-> JSONNumber(array[i][j])]]

\* the file as the value its JSON text parses to (the timestamp field, which
\* loadFromFile does not read, is left out)
File(data) == [exists |-> TRUE, data |-> data]

\* a file written by another program
ForeignFile ==
    File([vectors  |-> ForeignVectors,
          texts    |-> <<TextAAB, TextBAAA>>,
          metadata |-> <<[caller |-> 0, chunkIndex |-> 0, totalChunks |-> 1,
                          originalLength |-> Len(TextAAB)],
                         [caller |-> 0, chunkIndex |-> 0, totalChunks |-> 1,
                          originalLength |-> Len(TextBAAA)]>>])

\* SaveToFile that leaves the metadata out of the file
SaveToFileWithoutMetadata ==
    /\ disk' = File([vectors |-> JSONVectors(vectors), texts |-> texts])
    /\ result' = [op |-> "saveToFile"]
    /\ UNCHANGED <<storeVars, calls, pending>>
    /\ UNCHANGED <<localVars, fnVars, serverVars, widgetVars>>

\* a file whose texts and metadata differ in length from its vectors
UnequalFile ==
    File([vectors  |-> ForeignVectors,
          texts    |-> <<TextAAB>>,
          metadata |-> <<[caller |-> 0, chunkIndex |-> 0, totalChunks |-> 1,
                          originalLength |-> Len(TextAAB)]>>])

\* a file whose JSON object has no texts field
PartialFile ==
    File([vectors  |-> ForeignVectors,
          metadata |-> <<[caller |-> 0, chunkIndex |-> 0, totalChunks |-> 1,
                          originalLength |-> Len(TextAAB)],
                         [caller |-> 0, chunkIndex |-> 0, totalChunks |-> 1,
                          originalLength |-> Len(TextBAAA)]>>])

\* a file fs.readFileSync cannot read, and one JSON.parse cannot parse: the
\* call throws the named error
UnreadableFile == [exists |-> TRUE, error |-> "EACCES"]

UnparseableFile == [exists |-> TRUE, error |-> "SyntaxError"]

\* data.<field> || []
FieldOrEmpty(data, field) == IF field \in DOMAIN data THEN data[field] ELSE <<>>

SaveToFile ==
    /\ disk' = File([vectors |-> JSONVectors(vectors), texts |-> texts,
                     metadata |-> metadata])
    /\ result' = [op |-> "saveToFile"]
    /\ UNCHANGED <<storeVars, calls, pending>>
    /\ UNCHANGED <<localVars, fnVars, serverVars, widgetVars>>

\* LoadFromFile that appends the file's records to the store
LoadFromFileMerging ==
    /\ IF disk.exists
       THEN IF "error" \in DOMAIN disk
            THEN /\ UNCHANGED storeVars
                 /\ result' = [op |-> "loadFromFile", error |-> disk.error]
            ELSE /\ vectors' = vectors \o FieldOrEmpty(disk.data, "vectors")
                 /\ texts' = texts \o FieldOrEmpty(disk.data, "texts")
                 /\ metadata' = metadata \o FieldOrEmpty(disk.data, "metadata")
                 /\ result' = [op |-> "loadFromFile", error |-> "none", value |-> TRUE]
       ELSE /\ UNCHANGED storeVars
            /\ result' = [op |-> "loadFromFile", error |-> "none", value |-> FALSE]
    /\ UNCHANGED <<calls, pending, disk>>
    /\ UNCHANGED <<localVars, fnVars, serverVars, widgetVars>>

\* LoadFromFile that empties the store when the file is missing
LoadFromFileClearing ==
    /\ IF disk.exists
       THEN IF "error" \in DOMAIN disk
            THEN /\ UNCHANGED storeVars
                 /\ result' = [op |-> "loadFromFile", error |-> disk.error]
            ELSE /\ vectors' = FieldOrEmpty(disk.data, "vectors")
                 /\ texts' = FieldOrEmpty(disk.data, "texts")
                 /\ metadata' = FieldOrEmpty(disk.data, "metadata")
                 /\ result' = [op |-> "loadFromFile", error |-> "none", value |-> TRUE]
       ELSE /\ vectors' = <<>> /\ texts' = <<>> /\ metadata' = <<>>
            /\ result' = [op |-> "loadFromFile", error |-> "none", value |-> FALSE]
    /\ UNCHANGED <<calls, pending, disk>>
    /\ UNCHANGED <<localVars, fnVars, serverVars, widgetVars>>

\* loadFromFile(filename) on a store: the three arrays afterwards and what
\* the call returned or threw
loadFromFile(store, file) ==
    IF file.exists
    THEN IF "error" \in DOMAIN file
         THEN [store |-> store, result |-> [op |-> "loadFromFile", error |-> file.error]]
         ELSE [store  |-> [vectors  |-> FieldOrEmpty(file.data, "vectors"),
                           texts    |-> FieldOrEmpty(file.data, "texts"),
                           metadata |-> FieldOrEmpty(file.data, "metadata")],
               result |-> [op |-> "loadFromFile", error |-> "none", value |-> TRUE]]
    ELSE [store |-> store,
          result |-> [op |-> "loadFromFile", error |-> "none", value |-> FALSE]]

LoadFromFile ==
    /\ LET returned == loadFromFile(ThisStore, disk)
       IN  /\ vectors' = returned.store.vectors
           /\ texts' = returned.store.texts
           /\ metadata' = returned.store.metadata
           /\ result' = returned.result
    /\ UNCHANGED <<calls, pending, disk>>
    /\ UNCHANGED <<localVars, fnVars, serverVars, widgetVars>>

(***************************************************************************)
(* Calls of the pure methods on bounded inputs                             *)
(***************************************************************************)
MaxTextLength == 4

MaxSplitLength == 6

MaxChunkSize == 3

SeqsUpTo(S, n) == UNION {[1..k -> S] : k \in 0..n}

EmbeddingInputs ==
    SeqsUpTo({"a", "b", "B", "1", " "}, MaxTextLength) \cup CosineTexts \cup {TextProto}

SplitInputs == SeqsUpTo({"a", " ", "."}, MaxSplitLength)

\* 2^600, a Number whose square overflows
Huge == [k |-> "num", s |-> 1, m |-> BShl(<<1>>, Precision - 1), e |-> 601 - Precision]

VectorInputs ==
    {Vector(<<1, 0>>), Vector(<<0, 1>>), Vector(<<1, 2>>), Vector(<<0, 0>>),
     Vector(<<1>>), Vector(<<1, 2, 2>>), <<Huge, FromInt(1)>>}

NoCall == [fn |-> "none"]

NoOut == [done |-> FALSE, value |-> <<>>]

FnIdle ==
    /\ call = NoCall
    /\ out = NoOut

FnCalls ==
    {[fn |-> "createEmbedding", text |-> t] : t \in EmbeddingInputs}
    \cup {[fn |-> "cosineSimilarity", e1 |-> EmbeddingTable(t1), e2 |-> EmbeddingTable(t2)] :
             t1 \in CosineTexts, t2 \in CosineTexts}
    \cup {[fn |-> "splitTextIntoChunks", text |-> t, maxChunkSize |-> m] :
             t \in SplitInputs, m \in 1..MaxChunkSize}
    \cup {[fn |-> "splitTextIntoChunks", text |-> TextLong, maxChunkSize |-> DefaultMaxChunkSize]}
    \cup {[fn |-> "calculateSimilarity", vector1 |-> v1, vector2 |-> v2] :
             v1 \in VectorInputs, v2 \in VectorInputs}

Return(value) ==
    /\ ~out.done
    /\ out' = [done |-> TRUE, value |-> value]
    /\ UNCHANGED call
    /\ UNCHANGED <<localVars, remoteVars, serverVars, widgetVars>>

CallCreateEmbedding ==
    /\ call.fn = "createEmbedding"
    /\ Return(createEmbedding(call.text))

CallCosineSimilarity ==
    /\ call.fn = "cosineSimilarity"
    /\ Return(cosineSimilarity(call.e1.vector, call.e2.vector,
                               call.e1.vocabulary, call.e2.vocabulary))

CallSplitTextIntoChunks ==
    /\ call.fn = "splitTextIntoChunks"
    /\ Return(splitTextIntoChunks(call.text, call.maxChunkSize))

CallCalculateSimilarity ==
    /\ call.fn = "calculateSimilarity"
    /\ Return(calculateSimilarity(call.vector1, call.vector2))

(***************************************************************************)
(* Specifications                                                          *)
(***************************************************************************)
\* the SimpleVectorStore under addDocument and search
Init ==
    /\ LocalInit
    /\ ServerIdle
    /\ WidgetIdle
    /\ RemoteInit
    /\ FnIdle

Next ==
    \/ \E text \in DocumentTexts : AddDocument(text, SegmentMetadata(Len(documents) + 1))
    \/ \E query \in QueryTexts, limit \in 0..MaxLimit : Search(query, limit)

Spec == Init /\ [][Next]_vars

\* the VectorStore under addText
InitRemote ==
    /\ LocalInit
    /\ ServerIdle
    /\ WidgetIdle
    /\ RemoteInit
    /\ FnIdle

NextRemote ==
    \/ \E text \in RemoteTexts : AddText(text, Len(calls) + 1)
    \/ \E c \in DOMAIN calls, embedding \in EmbeddingValues : EmbeddingResolved(c, embedding)
    \/ \E c \in DOMAIN calls, error \in Errors : EmbeddingRejected(c, error)

SpecRemote == InitRemote /\ [][NextRemote]_vars

\* both stores under add, search and load.  The two stores share no state,
\* so a behaviour works on one of them.  The VectorStore is loaded before its
\* first addText call, as the program does at start-up.
StoreTexts == {TextHealth, TextEmpty}

SomeDocumentTexts == {TextHealth, TextAuto, TextConstructor, TextEmpty}

MaxStoreCalls == 2

\* the records the VectorStore is let grow to: those it holds and one for
\* every addText call that awaits an embedding
MaxVectors == 3

Awaiting == {c \in DOMAIN calls : calls[c].pc = "embedding"}

LocalUntouched == documents = <<>> /\ embeddings = <<>> /\ ret = NoReturn

RemoteUntouched ==
    /\ vectors = <<>> /\ texts = <<>> /\ metadata = <<>>
    /\ calls = <<>> /\ pending = NoSearch /\ result = NoResult

InitStores ==
    /\ LocalInit
    /\ ServerIdle
    /\ WidgetIdle
    /\ vectors = <<>> /\ texts = <<>> /\ metadata = <<>>
    /\ calls = <<>> /\ pending = NoSearch /\ result = NoResult
    /\ disk \in {NoFile, ForeignFile}
    /\ FnIdle

NextStores ==
    \/ RemoteUntouched /\ \E text \in SomeDocumentTexts :
                              AddDocument(text, SegmentMetadata(Len(documents) + 1))
    \/ RemoteUntouched /\ \E query \in QueryTexts, limit \in 0..MaxLimit : Search(query, limit)
    \/ LocalUntouched /\ Len(calls) < MaxStoreCalls
                      /\ Len(vectors) + Cardinality(Awaiting) < MaxVectors
                      /\ AddText(TextHealth, Len(calls) + 1)
    \/ LocalUntouched /\ \E c \in DOMAIN calls, embedding \in EmbeddingValues :
                             EmbeddingResolved(c, embedding)
    \/ LocalUntouched /\ \E c \in DOMAIN calls, error \in Errors : EmbeddingRejected(c, error)
    \/ LocalUntouched /\ \E query \in RemoteQueries, topK \in 0..MaxTopK :
                             SearchStart(query, topK)
    \/ LocalUntouched /\ \E embedding \in EmbeddingValues : SearchResolved(embedding)
    \/ LocalUntouched /\ \E error \in Errors : SearchRejected(error)
    \/ LocalUntouched /\ calls = <<>> /\ LoadFromFile

SpecStores == InitStores /\ [][NextStores]_vars

\* the VectorStore under addText calls made one after the other, getStats,
\* saveToFile and loadFromFile
NoCallRunning == \A c \in DOMAIN calls : calls[c].pc # "embedding"

InitFiles ==
    /\ LocalInit
    /\ ServerIdle
    /\ WidgetIdle
    /\ vectors = <<>> /\ texts = <<>> /\ metadata = <<>>
    /\ calls = <<>> /\ pending = NoSearch /\ result = NoResult
    /\ disk \in {NoFile, ForeignFile, UnequalFile, PartialFile,
                 UnreadableFile, UnparseableFile}
    /\ FnIdle

NextFiles ==
    \/ NoCallRunning /\ \E text \in StoreTexts : AddText(text, Len(calls) + 1)
    \/ \E c \in DOMAIN calls, embedding \in EmbeddingValues : EmbeddingResolved(c, embedding)
    \/ \E c \in DOMAIN calls, error \in Errors : EmbeddingRejected(c, error)
    \/ NoCallRunning /\ GetStats
    \/ NoCallRunning /\ SaveToFile
    \/ NoCallRunning /\ LoadFromFile

SpecFiles == InitFiles /\ [][NextFiles]_vars

\* the chatbot endpoint: requests in any order, the knowledge base files
\* being replaced between them
InitChatbot ==
    /\ ServerInit
    /\ RemoteInit
    /\ FnIdle
    /\ WidgetIdle

NextChatbot ==
    \/ \E files \in [fromText : KnowledgeFiles, original : KnowledgeFiles] : Deploy(files)
    \/ \E method \in Methods, body \in Bodies : Handler(method, body)

SpecChatbot == InitChatbot /\ [][NextChatbot]_vars

\* the chat widget: the user types and triggers sendMessage, the network
\* settles the promises, the calls resume
InitWidget ==
    /\ LocalInit
    /\ ServerIdle
    /\ WidgetIdle
    /\ RemoteInit
    /\ FnIdle

NextWidget ==
    \/ \E value \in InputValues : SetValue(value)
    \/ \E trigger \in {"click", "Enter"} : SendMessage(trigger)
    \/ \E c \in DOMAIN sends, settled \in {"resolved", "rejected"}, ok \in BOOLEAN :
           FetchSettled(c, settled, ok)
    \/ \E c \in DOMAIN sends : BodySettled(c, "rejected", NoData)
    \/ \E c \in DOMAIN sends, data \in Datas : BodySettled(c, "resolved", data)
    \/ \E c \in DOMAIN sends : Resume(c)

SpecWidget == InitWidget /\ [][NextWidget]_vars

\* a call whose promise has settled resumes: the event loop runs its
\* continuation
SpecWidgetLive ==
    InitWidget /\ [][NextWidget]_vars /\ \A c \in 1..MaxSends : WF_vars(Resume(c))

\* one call of a pure method
InitFunctions ==
    /\ LocalInit
    /\ ServerIdle
    /\ WidgetIdle
    /\ RemoteInit
    /\ call \in FnCalls
    /\ out = NoOut

NextFunctions ==
    \/ CallCreateEmbedding
    \/ CallCosineSimilarity
    \/ CallSplitTextIntoChunks
    \/ CallCalculateSimilarity

SpecFunctions == InitFunctions /\ [][NextFunctions]_vars

(***************************************************************************)
(* Claims                                                                  *)
(***************************************************************************)
Searched == ret.op = "search"

\* String.prototype.trim leaves nothing
IsBlank(text) == \A i \in DOMAIN text : IsWhitespace(text[i])

\* C1: the sequence search returns is non-increasing in similarity, and two
\* results of equal similarity appear in the order their documents were added.
C1_RankingOrder ==
    Searched =>
        \A i, j \in DOMAIN ret.value :
            i < j => /\ FGe(ret.value[i].similarity, ret.value[j].similarity)
                     /\ FEq(ret.value[i].similarity, ret.value[j].similarity)
                            => ret.value[i].document < ret.value[j].document

\* the stored documents that score above the 0.1 threshold for a query
ScoringAbove(docs, query) ==
    {i \in DOMAIN docs :
        FGt(Similarity(EmbeddingTable(query), docs[i].embedding), Threshold)}

\* C2: search(query, k) returns at most k results, and exactly k whenever at
\* least k stored documents score above the 0.1 threshold.
C2_TopKBound ==
    Searched =>
        /\ Len(ret.value) <= ret.limit
        /\ Cardinality(ScoringAbove(documents, ret.query)) >= ret.limit
               => Len(ret.value) = ret.limit

\* C3: the result of search is the list of all scored documents sorted
\* descending, without the entries of similarity <= 0.1, cut to its first topK
\* entries; no returned result has similarity <= 0.1.
C3_FilterBeforeTruncate ==
    Searched =>
        /\ ret.value = Slice(StableSort(FilterLow(Similarities(documents, ret.query))),
                             ret.limit)
        /\ \A i \in DOMAIN ret.value : ~FLe(ret.value[i].similarity, Threshold)

\* the call of the pure method fn has returned
Returned(fn) == call.fn = fn /\ out.done

\* the positions of vocab1 whose token is also in vocab2
CommonPositions(vocab1, vocab2) == {n \in DOMAIN vocab1 : vocab1[n] \in Range(vocab2)}

\* the sum of the terms at the positions in common, from left to right
RECURSIVE SumTerms(_, _, _)
SumTerms(terms, common, n) ==
    IF n = 0 THEN Zero
    ELSE IF n \in common THEN FAdd(SumTerms(terms, common, n - 1), terms[n])
    ELSE SumTerms(terms, common, n - 1)

\* dot/(norm1*norm2) over the common tokens, each value read at the index of
\* its token in its own vocabulary
CosineOverCommon(vec1, vec2, vocab1, vocab2) ==
    LET common == CommonPositions(vocab1, vocab2)
        n      == Len(vocab1)
        val2   == [i \in 1..n |-> IF i \in common THEN vec2[IndexOf(vocab2, vocab1[i])]
                                  ELSE Zero]
        dot    == SumTerms([i \in 1..n |-> FMul(vec1[i], val2[i])], common, n)
        norm1  == SumTerms([i \in 1..n |-> FMul(vec1[i], vec1[i])], common, n)
        norm2  == SumTerms([i \in 1..n |-> FMul(val2[i], val2[i])], common, n)
    IN  IF common = {} THEN Zero
        ELSE FDiv(dot, FMul(FSqrt(norm1), FSqrt(norm2)))

\* C4: cosineSimilarity returns 0 when the vocabularies share no token, and
\* otherwise dot/(norm1*norm2) over the tokens in both vocabularies, each
\* token's value taken at its own index in its own vector.
C4_CosineOverIntersection ==
    Returned("cosineSimilarity") =>
        out.value = CosineOverCommon(call.e1.vector, call.e2.vector,
                                     call.e1.vocabulary, call.e2.vocabulary)

StoredTexts == [i \in 1..Len(documents) |-> documents[i].text]

\* C5: with the three insurance documents added in order to an empty store,
\* search("health insurance", 2) returns the first document as its first
\* result and no document of similarity <= 0.1.
C5_HealthScenario ==
    (/\ StoredTexts = <<TextHealth, TextAuto, TextLife>>
     /\ Searched /\ ret.query = QueryHealth /\ ret.limit = 2)
        => /\ Len(ret.value) >= 1
           /\ ret.value[1].document = 1
           /\ \A i \in DOMAIN ret.value : FGt(ret.value[i].similarity, Threshold)

One == FromInt(1)

\* C6: the similarity of an embedding with itself is 1, for the embedding of
\* any non-empty text under cosineSimilarity and for any embedding vector
\* under calculateSimilarity.
C6_SelfSimilarity ==
    /\ (Returned("cosineSimilarity") /\ call.e1 = call.e2 /\ call.e1.text # <<>>)
           => out.value = One
    /\ (Returned("calculateSimilarity") /\ call.vector1 = call.vector2
           /\ call.vector1 # <<>>)
           => out.value = One

\* the number of occurrences of word in words
Occurrences(words, word) == Cardinality({i \in DOMAIN words : words[i] = word})

\* C7: createEmbedding returns a vocabulary holding each distinct lower-cased
\* word token of the text exactly once and a vector of the same length with
\* vector[i] = occurrences of vocabulary[i] / number of tokens; both are empty
\* when the text has no token.
C7_TermFrequencies ==
    Returned("createEmbedding") =>
        LET words      == MatchWords(toLowerCase(call.text))
            vocabulary == out.value.vocabulary
            vector     == out.value.vector
        IN  /\ Range(vocabulary) = Range(words)
            /\ Cardinality(Range(vocabulary)) = Len(vocabulary)
            /\ Len(vector) = Len(vocabulary)
            /\ \A i \in DOMAIN vocabulary :
                   vector[i] = FDiv(FromInt(Occurrences(words, vocabulary[i])),
                                    FromInt(Len(words)))
            /\ words = <<>> => vector = <<>> /\ vocabulary = <<>>

\* C8: no stored record has an empty or whitespace-only text or a zero-length
\* vector (adding such a text is rejected and appends nothing).
C8_NoBlankRecord ==
    \A i \in DOMAIN documents :
        /\ ~IsBlank(documents[i].text)
        /\ Len(documents[i].embedding.vector) > 0

\* C9: every chunk splitTextIntoChunks(text, maxChunkSize) returns has length
\* <= maxChunkSize.
C9_ChunkLength ==
    Returned("splitTextIntoChunks") =>
        \A i \in DOMAIN out.value : Len(out.value[i]) <= call.maxChunkSize

\* the positions of the records addText call c appended (a call passes its
\* number as the caller's metadata)
RecordsOf(c) == {k \in DOMAIN metadata : metadata[k].caller = c}

ChunkIndices(c) == {metadata[k].chunkIndex : k \in RecordsOf(c)}

Ended(c) == calls[c].pc \in {"done", "failed"}

\* every record of call c carries the number of chunks of the call's text, and
\* no two records of it the same chunkIndex
ChunkAccounting(c) ==
    /\ \A k \in RecordsOf(c) :
           metadata[k].totalChunks = Len(ChunkTable(calls[c].text))
    /\ Cardinality(ChunkIndices(c)) = Cardinality(RecordsOf(c))

\* C10 as stated: the records of an addText call whose text splits into N
\* chunks have totalChunks = N and chunkIndex values exactly 0..N-1, each once.
C10_AllChunksRecorded ==
    \A c \in DOMAIN calls :
        Ended(c) => /\ ChunkAccounting(c)
                    /\ ChunkIndices(c) = 0..(Len(calls[c].chunks) - 1)

\* C10: the records of an addText call whose text splits into N chunks have
\* totalChunks = N and chunkIndex values exactly 0..j-1, each once, where j = N
\* for a call that completed and j < N is the chunk whose embedding failed for
\* a call that failed.
C10_ChunkAccounting ==
    \A c \in DOMAIN calls :
        /\ ChunkAccounting(c)
        /\ calls[c].pc = "done" => ChunkIndices(c) = 0..(Len(calls[c].chunks) - 1)
        /\ calls[c].pc = "failed" =>
               \E j \in 0..(Len(calls[c].chunks) - 1) : ChunkIndices(c) = 0..(j - 1)

\* a call of two chunks has completed and another has failed on its second
\* chunk
C10_Witness ==
    \E c, d \in DOMAIN calls :
        /\ calls[c].pc = "done" /\ Cardinality(RecordsOf(c)) = 2
        /\ calls[d].pc = "failed" /\ Len(calls[d].chunks) = 2
        /\ Cardinality(RecordsOf(d)) = 1

\* C11: an addText call that failed at chunk j failed with the error of the
\* embedding service, and the store holds of this call exactly the records of
\* its chunks 0..j-1, each with the text of its chunk: no vector, text or
\* metadata entry exists for chunk j or a later chunk.
C11_FailedCallKeepsPrefix ==
    /\ Len(vectors) = Len(metadata) /\ Len(texts) = Len(metadata)
    /\ \A c \in DOMAIN calls :
           calls[c].pc = "failed" =>
               /\ calls[c].error \in Errors
               /\ calls[c].i < Len(calls[c].chunks)
               /\ ChunkIndices(c) = 0..(calls[c].i - 1)
               /\ Cardinality(RecordsOf(c)) = calls[c].i
               /\ \A k \in RecordsOf(c) :
                      texts[k] = calls[c].chunks[metadata[k].chunkIndex + 1]

\* a call of two chunks failed at its second chunk and its first chunk is stored
C11_Witness ==
    \E c \in DOMAIN calls :
        /\ calls[c].pc = "failed" /\ calls[c].i = 1 /\ Len(calls[c].chunks) = 2
        /\ \E k \in DOMAIN texts :
               metadata[k].caller = c /\ texts[k] = calls[c].chunks[1]

\* C12: the records of one addText call stand in the store in strictly
\* increasing chunkIndex order, whatever the interleaving of the embedding
\* responses of the calls running on the store.
C12_ChunkIndexOrder ==
    \A k1, k2 \in DOMAIN metadata :
        (k1 < k2 /\ metadata[k1].caller = metadata[k2].caller)
            => metadata[k1].chunkIndex < metadata[k2].chunkIndex

\* the records of two calls interleave in the store
C12_Witness ==
    \E k1, k2, k3 \in DOMAIN metadata :
        /\ k1 < k2 /\ k2 < k3
        /\ metadata[k1].caller = metadata[k3].caller
        /\ metadata[k1].caller # metadata[k2].caller

\* old is an initial segment of new
IsPrefix(old, new) == Len(old) <= Len(new) /\ SubSeq(new, 1, Len(old)) = old

\* a step of addDocument, resp. of an addText call
AddDocumentStep == documents' # documents \/ embeddings' # embeddings

AddTextStep == calls' # calls

\* C13: a step of addDocument or of an addText call, successful or failed,
\* leaves every record that was in the store at its position with its text,
\* metadata, vector and vocabulary, and never shortens the store.
C13_AppendOnly ==
    [][/\ AddDocumentStep => /\ IsPrefix(documents, documents')
                             /\ IsPrefix(embeddings, embeddings')
       /\ AddTextStep => /\ IsPrefix(vectors, vectors')
                         /\ IsPrefix(texts, texts')
                         /\ IsPrefix(metadata, metadata')]_vars

\* an addText call has failed on a store that holds records
C13_Witness ==
    /\ Len(vectors) >= 2
    /\ \E c \in DOMAIN calls : calls[c].pc = "failed"

\* a step that starts or ends a VectorStore.search call, resp. a
\* SimpleVectorStore.search call
RemoteSearchStep == pending' # pending

LocalSearchStep == ret'.op = "search" /\ ret' # ret

\* C14: a search step, whether the search returns results or fails because
\* the query embedding failed, leaves the stored records and their order
\* unchanged.
C14_SearchFrame ==
    [][/\ LocalSearchStep => UNCHANGED <<documents, embeddings>>
       /\ RemoteSearchStep => UNCHANGED <<vectors, texts, metadata>>]_vars

\* a search on a store that holds records has failed on its query embedding
C14_Witness ==
    /\ result.op = "search" /\ result.error \in Errors
    /\ Len(vectors) >= 1

\* the step that ends a VectorStore.search call
RemoteSearchEnd == pending # NoSearch /\ pending' = NoSearch

\* C15 as stated: a search on an empty store returns an empty sequence and
\* raises no error.
C15_EmptyStoreSearch ==
    [][/\ (LocalSearchStep /\ documents = <<>>) => ret'.value = <<>>
       /\ (RemoteSearchEnd /\ vectors = <<>>) =>
              (result'.error = "none" /\ result'.value = <<>>)]_vars

\* C15: a search on an empty store returns an empty sequence;
\* SimpleVectorStore.search raises no error, and VectorStore.search raises one
\* only when the embedding call for its query failed, and then the error of
\* that call.
C15_EmptyStoreSearchOrError ==
    [][/\ (LocalSearchStep /\ documents = <<>>) => ret'.value = <<>>
       /\ (RemoteSearchEnd /\ vectors = <<>>) =>
              /\ result'.op = "search"
              /\ result'.value = <<>>
              /\ \/ result'.error = "none"
                 \/ result'.error \in Errors /\ result'.queryEmbedding = <<>>]_vars

\* a VectorStore.search whose query embedding arrived has returned the empty
\* sequence on the empty store
C15_Witness ==
    /\ vectors = <<>>
    /\ result.op = "search" /\ result.error = "none"
    /\ result.queryEmbedding # <<>> /\ result.value = <<>>

ResultFields == {"text", "metadata", "similarity", "index"}

\* C16: every search result of either store carries text, metadata,
\* similarity and index, where index is the zero-based position of the record
\* in the store: the result's text and metadata are those of that record.
C16_ResultIndex ==
    [][/\ LocalSearchStep =>
              \A i \in DOMAIN ret'.value :
                  /\ ResultFields \subseteq DOMAIN ret'.value[i]
                  /\ ret'.value[i].index + 1 \in DOMAIN documents
                  /\ ret'.value[i].text = documents[ret'.value[i].index + 1].text
                  /\ ret'.value[i].metadata = documents[ret'.value[i].index + 1].metadata
       /\ (RemoteSearchEnd /\ result'.error = "none") =>
              \A i \in DOMAIN result'.value :
                  /\ ResultFields \subseteq DOMAIN result'.value[i]
                  /\ result'.value[i].index + 1 \in DOMAIN vectors
                  /\ result'.value[i].text = texts[result'.value[i].index + 1]
                  /\ result'.value[i].metadata = metadata[result'.value[i].index + 1]]_vars

\* C18: a VectorStore.search whose query vector differs in dimension from a
\* stored vector fails with an error: a search that returns has compared
\* vectors of one dimension only.
C18_DimensionMismatchFails ==
    [][(RemoteSearchEnd /\ result'.error = "none") =>
           \A i \in DOMAIN vectors : Len(vectors[i]) = Len(result'.queryEmbedding)]_vars

\* every component of vector is a finite Number or 0
IsNumeric(vector) == \A i \in DOMAIN vector : vector[i].k \in {"num", "zero"}

\* the sum of squares of the components, from left to right
RECURSIVE SumOfSquares(_, _)
SumOfSquares(vector, n) ==
    IF n = 0 THEN Zero ELSE FAdd(SumOfSquares(vector, n - 1), FMul(vector[n], vector[n]))

RECURSIVE DotProduct(_, _, _)
DotProduct(vector1, vector2, n) ==
    IF n = 0 THEN Zero
    ELSE FAdd(DotProduct(vector1, vector2, n - 1), FMul(vector1[n], vector2[n]))

Norm(vector) == FSqrt(SumOfSquares(vector, Len(vector)))

\* C17: on two numeric vectors of equal length calculateSimilarity returns 0
\* when either norm is 0 and otherwise dot/(norm1*norm2), and never NaN.
C17_GuardedCosine ==
    (/\ Returned("calculateSimilarity")
     /\ Len(call.vector1) = Len(call.vector2)
     /\ IsNumeric(call.vector1) /\ IsNumeric(call.vector2))
        => /\ ~IsNaN(out.value)
           /\ out.value =
                  IF IsZero(Norm(call.vector1)) \/ IsZero(Norm(call.vector2)) THEN Zero
                  ELSE FDiv(DotProduct(call.vector1, call.vector2, Len(call.vector1)),
                            FMul(Norm(call.vector1), Norm(call.vector2)))

\* a step in which getStats, resp. loadFromFile, returns: no addText call
\* moves and the last returned value is that of the operation
GetStatsStep == calls' = calls /\ result'.op = "getStats"

LoadFromFileStep == calls' = calls /\ result'.op = "loadFromFile"

\* C19: getStats returns the numbers of vectors and texts, as vectorDimension
\* the length of the first stored vector and as averageTextLength the mean
\* length of the stored texts, and 0 for both on an empty store.
C19_Stats ==
    [][GetStatsStep =>
           /\ result'.value.totalVectors = Len(vectors)
           /\ result'.value.totalTexts = Len(texts)
           /\ result'.value.vectorDimension =
                  IF Len(vectors) = 0 THEN 0 ELSE Len(vectors[1])
           /\ result'.value.averageTextLength =
                  IF Len(texts) = 0 THEN Zero
                  ELSE FDiv(FromInt(SumLengths(texts, 1)), FromInt(Len(texts)))]_vars

\* C20: loadFromFile on a missing file returns false and leaves vectors,
\* texts and metadata as they were.
C20_LoadMissingFile ==
    [][(LoadFromFileStep /\ ~disk.exists) =>
           /\ result'.value = FALSE
           /\ UNCHANGED <<vectors, texts, metadata>>]_vars

\* loadFromFile has returned false on a store that holds a record
C20_Witness ==
    /\ ~disk.exists
    /\ result.op = "loadFromFile" /\ result.value = FALSE
    /\ Len(vectors) >= 1

\* loadFromFile has returned normally with this value
LoadReturned(value) == result'.error = "none" /\ result'.value = value

\* the file exists and cannot be read, cannot be parsed or lacks one of the
\* three fields
InvalidFile ==
    /\ disk.exists
    /\ \/ "error" \in DOMAIN disk
       \/ ~({"vectors", "texts", "metadata"} \subseteq DOMAIN disk.data)

\* C21: loadFromFile on an existing file that is unreadable, unparseable or
\* lacks a field returns false, throws nothing and leaves the store untouched.
C21_LoadInvalidFile ==
    [][(LoadFromFileStep /\ InvalidFile) =>
           /\ LoadReturned(FALSE)
           /\ UNCHANGED <<vectors, texts, metadata>>]_vars

\* C22: whenever loadFromFile returns true the loaded vectors, texts and
\* metadata have equal length.
C22_LoadValidatesLengths ==
    [][(LoadFromFileStep /\ LoadReturned(TRUE)) =>
           /\ Len(vectors') = Len(texts')
           /\ Len(texts') = Len(metadata')]_vars

\* C23: a loadFromFile that returns true leaves in vectors, texts and
\* metadata exactly the sequences of the file (an absent one being empty),
\* whatever the store held before.
C23_LoadReplaces ==
    [][(LoadFromFileStep /\ LoadReturned(TRUE)) =>
           /\ vectors' = FieldOrEmpty(disk.data, "vectors")
           /\ texts' = FieldOrEmpty(disk.data, "texts")
           /\ metadata' = FieldOrEmpty(disk.data, "metadata")]_vars

\* a load has replaced records that addText had put in the store
C23_Witness ==
    /\ disk = ForeignFile
    /\ result.op = "loadFromFile" /\ result.error = "none" /\ result.value = TRUE
    /\ vectors = ForeignVectors
    /\ \E c \in DOMAIN calls : calls[c].i >= 1

\* a step in which saveToFile returns
SaveToFileStep == calls' = calls /\ result'.op = "saveToFile"

\* the values search returns on a store for a query embedding and topK
SearchOutcomesOn(store, queryEmbedding, topK) ==
    {Slice(sorted, topK) :
         sorted \in SortOutcomes(RemoteSimilaritiesFrom(store, queryEmbedding, 1))}

\* every vector of the store has its text and its metadata
Aligned == Len(vectors) = Len(texts) /\ Len(texts) = Len(metadata)

C25_AlignedStore ==
    [][/\ Aligned /\ Aligned'
       /\ (RemoteSearchEnd /\ result'.error = "none") =>
              \A i \in DOMAIN result'.value :
                  /\ result'.value[i].index + 1 \in DOMAIN texts
                  /\ result'.value[i].index + 1 \in DOMAIN metadata
                  /\ result'.value[i].text # JSUndefined
                  /\ result'.value[i].metadata # JSUndefined]_vars

\* a search and an addText call both await an embedding on a store that
\* holds a record, after another addText call has ended
C25_Witness ==
    /\ pending # NoSearch
    /\ \E c \in DOMAIN calls : calls[c].pc = "embedding"
    /\ \E c \in DOMAIN calls : calls[c].pc \in {"done", "failed"}
    /\ Len(vectors) >= 1

\* the distinct lower-cased word tokens of a text
Tokens(text) == Range(MatchWords(toLowerCase(text)))

\* C26: when the query and the document share exactly one distinct token,
\* cosineSimilarity returns exactly 1, so the document passes the filter.
C26_SingleSharedToken ==
    (/\ Returned("cosineSimilarity")
     /\ Cardinality(Tokens(call.e1.text) \cap Tokens(call.e2.text)) = 1)
        => /\ out.value = One
           /\ FGt(out.value, Threshold)

\* a step in which the handler answers a request
HandlerStep == knowledge' = knowledge

Unavailable == "Chatbot service is currently unavailable. Please try again later."

\* C27: initializeChatbot returns true exactly when chatbotVectorStore is not
\* null afterwards; the handler calls search only on a store that is not
\* null, and when the store is null and initialization fails it answers the
\* unavailable error without searching.
C27_StoreSingleton ==
    [][HandlerStep =>
           /\ reply'.initialized = "true" => chatbotVectorStore' # "null"
           /\ reply'.initialized = "false" => chatbotVectorStore' = "null"
           /\ reply'.searched # "not called" => reply'.searched # "null"
           /\ (chatbotVectorStore = "null" /\ reply'.initialized = "false") =>
                  /\ reply'.status = 500 /\ reply'.error = Unavailable
                  /\ reply'.searched = "not called"
                  /\ ret' = ret]_vars

\* a request has initialized the store again and searched it
C27_Witness ==
    /\ reply.initialized = "true" /\ reply.searched = "SimpleVectorStore"
    /\ reply.status = 200 /\ Len(ret.value) >= 1

IsGreeting(message) ==
    \/ Includes(toLowerCase(message), <<"h", "e", "l", "l", "o">>)
    \/ Includes(toLowerCase(message), <<"h", "i">>)
    \/ Includes(toLowerCase(message), <<"h", "e", "y">>)

IsThanks(message) == Includes(toLowerCase(message), <<"t", "h", "a", "n", "k">>)

\* C28: when search returns a result and the message is neither a greeting
\* nor a thanks, the response text contains the text of the top-ranked
\* document, and that of the second-ranked document when there is one.
C28_ResponseQuotesDocuments ==
    [][(/\ HandlerStep
        /\ reply'.status = 200 /\ reply'.searched = "SimpleVectorStore"
        /\ Len(ret'.value) >= 1
        /\ ~IsGreeting(ret'.query) /\ ~IsThanks(ret'.query)) =>
           \A i \in 1..2 :
               i \in DOMAIN ret'.value =>
                   Includes(reply'.response, documents'[ret'.value[i].document].text)]_vars

\* the sendMessage calls that await their request
InFlight == {c \in DOMAIN sends : sends[c].pc # "done"}

\* a step in which sendMessage is triggered
SendMessageStep == event' # event

\* C29: at most one request is in flight, and a sendMessage triggered while
\* isLoading is true or with an empty trimmed input sends no request and
\* adds no message.
C29_OneRequestInFlight ==
    [][/\ Cardinality(InFlight) <= 1
       /\ Cardinality({c \in DOMAIN sends' : sends'[c].pc # "done"}) <= 1
       /\ (SendMessageStep /\ (isLoading \/ trim(input.value) = <<>>)) =>
              /\ ~event'.started
              /\ sends' = sends
              /\ messages' = messages]_vars

\* a sendMessage has been ignored while a request was in flight and the
\* input held a message
C29_Witness ==
    /\ isLoading /\ InFlight # {}
    /\ trim(input.value) # <<>>
    /\ event.trigger = "Enter" /\ ~event.started

\* the request of call c has resolved or rejected
RequestSettled(c) ==
    IF c \in DOMAIN sends
    THEN /\ sends[c].pc # "done"
         /\ sends[c].promise # "pending"
         /\ sends[c].pc = "json" \/ sends[c].promise = "rejected"
    ELSE FALSE

SendEnded(c) == IF c \in DOMAIN sends THEN sends[c].pc = "done" ELSE FALSE

\* C30: once its request has resolved or rejected, every sendMessage call
\* ends, and it ends with isLoading = false, the input and the button
\* enabled, its loading message removed and exactly one bot message added.
C30_SendMessageEnds ==
    /\ \A c \in 1..MaxSends : RequestSettled(c) ~> SendEnded(c)
    /\ [][\A c \in DOMAIN sends :
              (sends[c].pc # "done" /\ sends'[c].pc = "done") =>
                  /\ isLoading' = FALSE
                  /\ ~input'.disabled /\ ~sendBtn'.disabled
                  /\ \A i \in DOMAIN messages' :
                         messages'[i].send = c => ~messages'[i].loading
                  /\ Cardinality({i \in DOMAIN messages' :
                                      /\ messages'[i].send = c
                                      /\ messages'[i].sender = "bot"}) = 1]_vars

\* one call has ended on an unparseable reply and one on a success reply
C30_Witness ==
    /\ Len(sends) = 2 /\ SendEnded(1) /\ SendEnded(2)
    /\ sends[1].promise = "rejected" /\ sends[1].ok
    /\ sends[2].ok /\ sends[2].data = DataSuccess
    /\ ~isLoading /\ Len(messages) = 4
====
